---- MODULE Spec2Model ----
(***************************************************************************)
(* A model of the refactor-verifier plugin: the summary script             *)
(* scripts/verify-refactor.ts (extraction, merge, comparison, verdict) and *)
(* the function analysis of scripts/verify-refactor-detailed.ts.           *)
(*                                                                         *)
(* JavaScript objects used as maps (Record<string, X>) are sequences of    *)
(* [key, val] entries with distinct keys, in insertion order, which is the *)
(* order Object.keys and Object.assign see.  Source text is modelled after *)
(* lexing: a Python module is its list of top-level statements, a          *)
(* TypeScript file the list of declarations the compiler's parser yields,  *)
(* each with the characters of its source slice.                           *)
(***************************************************************************)
EXTENDS Integers, Sequences, FiniteSets, TLC

\* ------------------------------------------------------------------ bounds

\* Number of changed files of a run (Python and TypeScript together).
MaxFiles == 2
\* Number of distinct statement bodies a definition may have.
MaxBody == 2
MaxSpaces == 2

\* Bare definition names the inputs are drawn from.
Names == {"f", "g"}

\* ------------------------------------------------- JavaScript object as map

Null == [null |-> TRUE]

EmptyObj == <<>>

\* Object.keys(obj)
Keys(obj) == [i \in 1..Len(obj) |-> obj[i].key]

KeySet(obj) == {obj[i].key : i \in 1..Len(obj)}

\* key in obj
Has(obj, k) == k \in KeySet(obj)

\* obj[k], for a key the object has
Get(obj, k) == obj[CHOOSE i \in 1..Len(obj) : obj[i].key = k].val

\* obj[k] = v: an existing key keeps its position, a new key goes last
Put(obj, k, v) ==
    IF Has(obj, k)
    THEN [i \in 1..Len(obj) |-> IF obj[i].key = k THEN [key |-> k, val |-> v] ELSE obj[i]]
    ELSE Append(obj, [key |-> k, val |-> v])

\* An assignment that keeps the entries target already has
ObjectAssign_KeepFirst(target, source) ==
    target \o SelectSeq(source, LAMBDA e : ~Has(target, e.key))

RECURSIVE ObjectAssign(_, _)
\* Object.assign(target, source): every own entry of source is put into target
ObjectAssign(target, source) ==
    IF source = <<>> THEN target
    ELSE ObjectAssign(Put(target, Head(source).key, Head(source).val), Tail(source))

\* The elements of a sequence
Range(s) == {s[i] : i \in 1..Len(s)}

\* ------------------------------------------------------------ fingerprints

\* hashlib.sha256(body.encode()).hexdigest(): the digest of a normalized body.
\* Collisions are left out: equal digests iff equal bodies.
Sha256(body) == <<"sha256", body>>

\* Bun.hash(text).toString(16), likewise without collisions.
BunHash(text) == <<"wyhash", text>>

\* ------------------------------------------------------ Python extraction

\* node.decorator_list, isinstance(node, ast.AsyncFunctionDef), node.args and
\* node.returns of a function: nothing of the kind unless the node says so
SignatureOf(node) ==
    IF "signature" \in DOMAIN node THEN node.signature
    ELSE [decorators |-> <<>>, is_async |-> FALSE, args |-> <<>>, returns |-> <<>>]

\* ast.unparse(node) of a top-level statement: the canonical source, which
\* holds the definition's own name followed by the rest of its tokens; for
\* a function its decorators, async, parameters and return annotation too.
RECURSIVE NormalizeCode(_), NormalizeAll(_)
NormalizeCode(node) ==
    (CASE node.type = "FunctionDef" ->
            SignatureOf(node).decorators
            \o (IF SignatureOf(node).is_async THEN <<"async">> ELSE <<>>)
            \o <<"def", node.name>> \o SignatureOf(node).args
            \o SignatureOf(node).returns \o node.impl
       [] node.type = "ClassDef"    -> <<"class", node.name>> \o node.impl
       [] OTHER                     -> node.impl)
    \o (IF "inner" \in DOMAIN node THEN NormalizeAll(node.inner) ELSE <<>>)

\* The statements inside a definition, unparsed as part of it
NormalizeAll(nodes) ==
    IF nodes = <<>> THEN <<>>
    ELSE NormalizeCode(Head(nodes)) \o NormalizeAll(Tail(nodes))

EmptyDefinitions ==
    [functions |-> EmptyObj, classes |-> EmptyObj,
     assignments |-> EmptyObj, type_aliases |-> EmptyObj, error |-> ""]

\* One iteration of "for node in tree.body" of extract_definitions.
ExtractNode(definitions, node) ==
    CASE node.type = "FunctionDef" ->
           [definitions EXCEPT !.functions =
               Put(@, node.name, [body_hash |-> Sha256(NormalizeCode(node)),
                                  body |-> NormalizeCode(node)])]
      [] node.type = "ClassDef" ->
           [definitions EXCEPT !.classes =
               Put(@, node.name, [body_hash |-> Sha256(NormalizeCode(node)),
                                  body |-> NormalizeCode(node)])]
      [] node.type = "Assign" ->
           [definitions EXCEPT !.assignments =
               Put(@, node.name, [value_hash |-> Sha256(NormalizeCode(node)),
                                  value |-> NormalizeCode(node)])]
      [] node.type = "AnnAssign" ->
           [definitions EXCEPT !.type_aliases =
               Put(@, node.name, [value_hash |-> Sha256(NormalizeCode(node)),
                                  value |-> NormalizeCode(node)])]
      [] OTHER -> definitions

RECURSIVE ExtractBody(_, _)
ExtractBody(definitions, body) ==
    IF body = <<>> THEN definitions
    ELSE ExtractBody(ExtractNode(definitions, Head(body)), Tail(body))

\* extract_definitions(source_code, filename) of PYTHON_EXTRACTOR: a
\* SyntaxError of ast.parse gives the error object alone.
extract_definitions(source) ==
    IF source.status = "syntax"
    THEN [error |-> "Syntax error"]
    ELSE ExtractBody(EmptyDefinitions, source.body)

\* extractPythonDefinitions(sourceCode, filename), once python3 has run: a
\* non-zero exit gives empty definitions with stderr as the error, otherwise
\* the JSON the extractor printed.
extractPythonDefinitions(source) ==
    IF source.status = "crash"
    THEN [EmptyDefinitions EXCEPT !.error = "stderr"]
    ELSE extract_definitions(source)

\* defs.error, undefined read as the empty (falsy) string
ErrorOf(defs) == IF "error" \in DOMAIN defs THEN defs.error ELSE ""

\* A read that takes functions and classes for one namespace
FieldOf_OneNamespace(defs, field) ==
    IF field \notin DOMAIN defs THEN EmptyObj
    ELSE IF field \in {"functions", "classes"}
         THEN ObjectAssign(defs.functions, defs.classes)
         ELSE defs[field]

\* defs.<field>, undefined read as the empty object (Object.assign skips it)
FieldOf(defs, field) == IF field \in DOMAIN defs THEN defs[field] ELSE EmptyObj

\* ------------------------------------------------------- Python comparison

RECURSIVE MergeFrom(_, _)
\* The loop of mergeDefinitions over allDefs, in order.
MergeFrom(merged, allDefs) ==
    IF allDefs = <<>> THEN merged
    ELSE MergeFrom(
           [functions    |-> ObjectAssign(merged.functions, FieldOf(Head(allDefs), "functions")),
            classes      |-> ObjectAssign(merged.classes, FieldOf(Head(allDefs), "classes")),
            assignments  |-> ObjectAssign(merged.assignments, FieldOf(Head(allDefs), "assignments")),
            type_aliases |-> ObjectAssign(merged.type_aliases, FieldOf(Head(allDefs), "type_aliases"))],
           Tail(allDefs))

\* A merge that keeps the definitions of the last file alone
mergeDefinitions_LastOnly(allDefs) ==
    MergeFrom([functions |-> EmptyObj, classes |-> EmptyObj,
               assignments |-> EmptyObj, type_aliases |-> EmptyObj],
              IF allDefs = <<>> THEN <<>> ELSE <<allDefs[Len(allDefs)]>>)

\* mergeDefinitions(allDefs)
mergeDefinitions(allDefs) ==
    MergeFrom([functions |-> EmptyObj, classes |-> EmptyObj,
               assignments |-> EmptyObj, type_aliases |-> EmptyObj], allDefs)

EmptyResult ==
    [identical |-> TRUE, added |-> <<>>, removed |-> <<>>, modified |-> <<>>, matching |-> <<>>]

\* The label compareDefinitions gives a function or class in removed, added
\* and matching.
PyLabel(type, name) == type \o ": " \o name

\* One iteration of "for (const name of oldFunctions)" (or oldClasses).
ComparePyOldName(result, type, oldMap, newMap, name) ==
    IF ~Has(newMap, name)
    THEN [result EXCEPT !.removed = Append(@, PyLabel(type, name)), !.identical = FALSE]
    ELSE IF Get(oldMap, name).body_hash # Get(newMap, name).body_hash
    THEN [result EXCEPT !.modified =
                Append(@, [name |-> name, type |-> type, reason |-> "body changed",
                           oldHash |-> Get(oldMap, name).body_hash,
                           newHash |-> Get(newMap, name).body_hash]),
                        !.identical = FALSE]
    ELSE [result EXCEPT !.matching = Append(@, PyLabel(type, name))]

\* ComparePyNewName with the flag left alone when a name is added.
ComparePyNewName_FlagKept(result, type, oldMap, name) ==
    IF ~Has(oldMap, name)
    THEN [result EXCEPT !.added = Append(@, PyLabel(type, name))]
    ELSE result

\* One iteration of "for (const name of newFunctions)" (or newClasses).
ComparePyNewName(result, type, oldMap, name) ==
    IF ~Has(oldMap, name)
    THEN [result EXCEPT !.added = Append(@, PyLabel(type, name)), !.identical = FALSE]
    ELSE result

RECURSIVE ComparePyOldLoop(_, _, _, _, _)
ComparePyOldLoop(result, type, oldMap, newMap, names) ==
    IF names = <<>> THEN result
    ELSE ComparePyOldLoop(ComparePyOldName(result, type, oldMap, newMap, Head(names)),
                          type, oldMap, newMap, Tail(names))

RECURSIVE ComparePyNewLoop(_, _, _, _)
ComparePyNewLoop(result, type, oldMap, names) ==
    IF names = <<>> THEN result
    ELSE ComparePyNewLoop(ComparePyNewName(result, type, oldMap, Head(names)),
                          type, oldMap, Tail(names))

\* The two loops compareDefinitions runs for one kind of definition.
ComparePyKind(result, type, oldMap, newMap) ==
    ComparePyNewLoop(ComparePyOldLoop(result, type, oldMap, newMap, Keys(oldMap)),
                     type, oldMap, Keys(newMap))

\* compareDefinitions(oldDefs, newDefs): functions, then classes; the
\* assignments and type_aliases of the two sets are not read.
compareDefinitions(old, new) ==
    ComparePyKind(ComparePyKind(EmptyResult, "function", old.functions, new.functions),
                  "class", old.classes, new.classes)

\* -------------------------------------------------- TypeScript extraction

\* Text is a sequence of one-character strings.
WhiteSpace == {" ", "\n", "\t"}

RECURSIVE SkipLine(_)
\* What is left of a line comment's text from its line terminator on.
SkipLine(code) ==
    IF code = <<>> \/ Head(code) = "\n" THEN code ELSE SkipLine(Tail(code))

RECURSIVE RemoveLineComments(_)
\* code.replace(/\/\/.*$/gm, ""): from each "//" to the end of its line
RemoveLineComments(code) ==
    IF code = <<>> THEN <<>>
    ELSE IF Len(code) >= 2 /\ code[1] = "/" /\ code[2] = "/"
    THEN RemoveLineComments(SkipLine(code))
    ELSE <<Head(code)>> \o RemoveLineComments(Tail(code))

\* The positions j at which a "*/" that closes a comment opened at 1 starts
BlockEnds(code) ==
    {j \in 3..(Len(code) - 1) : code[j] = "*" /\ code[j + 1] = "/"}

\* The least element of a non-empty set of numbers
Least(S) == CHOOSE j \in S : \A k \in S : j <= k

RECURSIVE RemoveBlockComments(_)
\* code.replace(/\/\*[\s\S]*?\*\//g, ""): from each "/*" to the first "*/"
\* after it; a "/*" that is never closed stays
RemoveBlockComments(code) ==
    IF code = <<>> THEN <<>>
    ELSE IF Len(code) >= 2 /\ code[1] = "/" /\ code[2] = "*" /\ BlockEnds(code) # {}
    THEN RemoveBlockComments(SubSeq(code, Least(BlockEnds(code)) + 2, Len(code)))
    ELSE <<Head(code)>> \o RemoveBlockComments(Tail(code))

RECURSIVE SkipSpace(_)
SkipSpace(code) ==
    IF code # <<>> /\ Head(code) \in WhiteSpace THEN SkipSpace(Tail(code)) ELSE code

RECURSIVE CollapseSpace(_)
\* code.replace(/\s+/g, " ")
CollapseSpace(code) ==
    IF code = <<>> THEN <<>>
    ELSE IF Head(code) \in WhiteSpace
    THEN <<" ">> \o CollapseSpace(SkipSpace(code))
    ELSE <<Head(code)>> \o CollapseSpace(Tail(code))

RECURSIVE TrimEnd(_)
TrimEnd(code) ==
    IF code # <<>> /\ code[Len(code)] \in WhiteSpace
    THEN TrimEnd(SubSeq(code, 1, Len(code) - 1))
    ELSE code

\* code.trim()
Trim(code) == TrimEnd(SkipSpace(code))

\* normalizeTSCode(code)
normalizeTSCode(code) ==
    Trim(CollapseSpace(RemoveBlockComments(RemoveLineComments(code))))

RECURSIVE SliceAll(_)
\* sourceCode.slice(node.pos, node.end): the node's own characters (its
\* leading trivia included) followed by the slices of the nodes inside it.
Slice(node) ==
    node.text \o (IF "inner" \in DOMAIN node THEN SliceAll(node.inner) ELSE <<>>)
SliceAll(nodes) ==
    IF nodes = <<>> THEN <<>>
    ELSE (Head(nodes).text) \o SliceAll(Tail(nodes))

\* The key and kind visit gives a node, Null for a node that is no definition:
\* a variable statement counts when its initializer is an arrow function, a
\* function expression or a call.
TSKeyOf(node) ==
    CASE node.kind = "function"  -> [key |-> "fn:" \o node.name, kind |-> "function"]
      [] node.kind = "variable" /\ node.init \in {"arrow", "function", "call"}
                                 -> [key |-> "const:" \o node.name, kind |-> "const"]
      [] node.kind = "class"     -> [key |-> "class:" \o node.name, kind |-> "class"]
      [] node.kind = "interface" -> [key |-> "interface:" \o node.name, kind |-> "interface"]
      [] node.kind = "type"      -> [key |-> "type:" \o node.name, kind |-> "type"]
      [] node.kind = "enum"      -> [key |-> "enum:" \o node.name, kind |-> "enum"]
      [] OTHER                   -> Null

\* The entry visit writes for one node
VisitNode(items, node) ==
    IF TSKeyOf(node) = Null THEN items
    ELSE Put(items, TSKeyOf(node).key,
             [body_hash |-> BunHash(normalizeTSCode(Slice(node))),
              body |-> Slice(node), kind |-> TSKeyOf(node).kind])

RECURSIVE VisitAll(_, _)
\* visit over a list of nodes: each node, then (ts.forEachChild) the nodes
\* inside it, then the next node
VisitAll(items, nodes) ==
    IF nodes = <<>> THEN items
    ELSE VisitAll(
           VisitAll(VisitNode(items, Head(nodes)),
                    IF "inner" \in DOMAIN Head(nodes) THEN Head(nodes).inner ELSE <<>>),
           Tail(nodes))

\* extractTSDefinitions(sourceCode, filename).  ts.createSourceFile does not
\* throw on a syntax error: it returns the tree of what it could parse, so
\* the catch is reached only when the walk itself throws, after the items
\* visited so far have been written.
extractTSDefinitions(source) ==
    IF source.status = "throw"
    THEN [items |-> VisitAll(EmptyObj, source.nodes), error |-> "Parse error"]
    ELSE [items |-> VisitAll(EmptyObj, source.nodes)]

RECURSIVE MergeTSFrom(_, _)
MergeTSFrom(merged, allDefs) ==
    IF allDefs = <<>> THEN merged
    ELSE MergeTSFrom([items |-> ObjectAssign(merged.items, Head(allDefs).items)],
                     Tail(allDefs))

\* mergeTSDefinitions(allDefs)
mergeTSDefinitions(allDefs) == MergeTSFrom([items |-> EmptyObj], allDefs)

\* One iteration of "for (const name of oldNames)" of compareTSDefinitions.
CompareTSOldName(result, oldItems, newItems, name) ==
    IF ~Has(newItems, name)
    THEN [result EXCEPT !.removed = Append(@, name), !.identical = FALSE]
    ELSE IF Get(oldItems, name).body_hash # Get(newItems, name).body_hash
    THEN [result EXCEPT !.modified =
                Append(@, [name |-> name, type |-> Get(oldItems, name).kind,
                           reason |-> "body changed",
                           oldHash |-> Get(oldItems, name).body_hash,
                           newHash |-> Get(newItems, name).body_hash]),
                        !.identical = FALSE]
    ELSE [result EXCEPT !.matching = Append(@, name)]

\* One iteration of "for (const name of newNames)" of compareTSDefinitions.
CompareTSNewName(result, oldItems, name) ==
    IF ~Has(oldItems, name)
    THEN [result EXCEPT !.added = Append(@, name), !.identical = FALSE]
    ELSE result

RECURSIVE CompareTSOldLoop(_, _, _, _)
CompareTSOldLoop(result, oldItems, newItems, names) ==
    IF names = <<>> THEN result
    ELSE CompareTSOldLoop(CompareTSOldName(result, oldItems, newItems, Head(names)),
                          oldItems, newItems, Tail(names))

RECURSIVE CompareTSNewLoop(_, _, _)
CompareTSNewLoop(result, oldItems, names) ==
    IF names = <<>> THEN result
    ELSE CompareTSNewLoop(CompareTSNewName(result, oldItems, Head(names)),
                          oldItems, Tail(names))

\* compareTSDefinitions(oldDefs, newDefs)
compareTSDefinitions(old, new) ==
    CompareTSNewLoop(CompareTSOldLoop(EmptyResult, old.items, new.items, Keys(old.items)),
                     old.items, Keys(new.items))

\* ------------------------------------------------------------------ state

VARIABLES
    pc,                 \* where main is
    python3Available,   \* whether Bun.spawn can start python3
    pythonFiles,        \* getChangedPythonFiles(baseBranch)
    tsFiles,            \* getChangedTSFiles(baseBranch)
    pyOldContent,       \* what getOldFileContent gave for each Python file so far
    pyNewContent,       \* what getNewFileContent gave for each Python file so far
    oldDefsArray,
    newDefsArray,
    oldDefs,
    newDefs,
    pythonComparison,
    tsOldContent,       \* what getOldFileContent gave for each TypeScript file so far
    tsNewContent,       \* what getNewFileContent gave for each TypeScript file so far
    oldTSDefs,
    newTSDefs,
    mergedOldTS,
    mergedNewTS,
    tsComparison,
    output,             \* the lines written to the console, in order
    exitCode,           \* the status of process.exit, Running before it
    detailed            \* the state of verify-refactor-detailed.ts, Null while not run

envVars == <<python3Available, pythonFiles, tsFiles>>
pyVars == <<pyOldContent, pyNewContent, oldDefsArray, newDefsArray, oldDefs, newDefs,
            pythonComparison>>
tsVars == <<tsOldContent, tsNewContent, oldTSDefs, newTSDefs, mergedOldTS, mergedNewTS,
            tsComparison>>
outVars == <<output, exitCode>>
vars == <<pc, envVars, pyVars, tsVars, outVars, detailed>>

Running == 0 - 1

\* ----------------------------------------------------------------- inputs

\* The empty string: what getOldFileContent gives for a file the base
\* revision does not have, and getNewFileContent for a deleted file.
EmptyText == [status |-> "empty"]

Body(b) == <<ToString(b)>>

FunctionDef(name, b) == [type |-> "FunctionDef", name |-> name, impl |-> Body(b)]
ClassDef(name, b) == [type |-> "ClassDef", name |-> name, impl |-> Body(b)]
Assign(name, b) == [type |-> "Assign", name |-> name, impl |-> Body(b)]

\* The Python modules the files of a run hold: one function, two functions,
\* one class, one constant, no definition at all, or a function with a
\* function defined inside it.
PyModules ==
    {<<FunctionDef(n, b)>> : n \in Names, b \in 1..MaxBody}
    \cup {<<FunctionDef(p[1], 1), FunctionDef(p[2], 1)>> :
             p \in {q \in Names \X Names : q[1] # q[2]}}
    \cup {<<ClassDef("f", 1)>>, <<Assign("f", 1)>>, <<>>}
    \cup {<<[type |-> "FunctionDef", name |-> "g", impl |-> Body(1),
             inner |-> <<FunctionDef("f", 2)>>]>>}

\* A Python text: empty, one ast.parse rejects, one on which the extractor
\* process exits non-zero, or a module.
PyTexts ==
    {EmptyText, [status |-> "syntax", body |-> <<>>], [status |-> "crash", body |-> <<>>]}
    \cup {[status |-> "ok", body |-> m] : m \in PyModules}

\* The characters of a declaration with statement body b; with a comment
\* after it when commented.
Raw(b, commented) ==
    IF commented THEN Body(b) \o <<" ", "/", "/", "c">> ELSE Body(b)

FunctionDeclaration(name, text) == [kind |-> "function", name |-> name, text |-> text]
ClassDeclaration(name, text) == [kind |-> "class", name |-> name, text |-> text]
VariableStatement(name, init, text) ==
    [kind |-> "variable", name |-> name, init |-> init, text |-> text]

\* The declarations of the TypeScript files of a run.
TSModules ==
    {<<FunctionDeclaration(n, Raw(b, FALSE))>> : n \in Names, b \in 1..MaxBody}
    \cup {<<FunctionDeclaration("f", Raw(1, TRUE))>>}
    \cup {<<FunctionDeclaration("f", Raw(1, FALSE)), FunctionDeclaration("g", Raw(1, FALSE))>>}
    \cup {<<[kind |-> "function", name |-> "g", text |-> Raw(1, FALSE),
             inner |-> <<FunctionDeclaration("f", Raw(2, FALSE))>>]>>}
    \cup {<<ClassDeclaration("f", Raw(1, FALSE))>>,
          <<VariableStatement("f", "arrow", Raw(1, FALSE))>>,
          <<VariableStatement("f", "literal", Raw(1, FALSE))>>,
          <<>>}

\* A TypeScript text: empty, a module, a text with a syntax error (with the
\* declarations the parser still yields), or one on which the walk throws.
TSTexts ==
    {EmptyText}
    \cup {[status |-> "ok", nodes |-> m] : m \in TSModules}
    \cup {[status |-> "syntax", nodes |-> m] :
             m \in {<<>>, <<FunctionDeclaration("f", Raw(1, FALSE))>>}}
    \cup {[status |-> "throw", nodes |-> <<FunctionDeclaration("f", Raw(1, FALSE))>>]}

\* ------------------------------------------------- the summary script: main

PyFile(i) == ToString(i) \o ".py"
TSFile(i) == ToString(i) \o ".ts"

RECURSIVE Lines(_, _)
\* One console line per item of a list, each under the given heading
Lines(heading, items) ==
    IF items = <<>> THEN <<>>
    ELSE <<<<"log", heading, Head(items)>>>> \o Lines(heading, Tail(items))

RECURSIVE ModifiedLines(_)
ModifiedLines(items) ==
    IF items = <<>> THEN <<>>
    ELSE <<<<"log", "MODIFIED", Head(items).type \o ": " \o Head(items).name>>>>
         \o ModifiedLines(Tail(items))

\* printComparisonResults(comparison, label)
printComparisonResults(comparison, label) ==
    <<<<"log", label, "COMPARISON RESULTS">>>>
    \o Lines("REMOVED", comparison.removed)
    \o Lines("ADDED", comparison.added)
    \o ModifiedLines(comparison.modified)
    \o <<<<"log", "MATCHING", ToString(Len(comparison.matching))>>>>

\* The body of the Python loops of main after the content is read: empty
\* content is skipped, and definitions with an error are not pushed.
PushPython(array, content) ==
    IF content = EmptyText THEN array
    ELSE IF ErrorOf(extractPythonDefinitions(content)) = ""
    THEN Append(array, extractPythonDefinitions(content))
    ELSE array

\* What extractPythonDefinitions writes to the console: console.error, on a
\* non-zero exit of the extractor only.
LogPython(content, file) ==
    IF content.status = "crash"
    THEN <<<<"error", "Error processing", file>>>>
    ELSE <<>>

\* The body of the TypeScript loops of main after the content is read.
PushTS(array, content) ==
    IF content = EmptyText THEN array
    ELSE IF ErrorOf(extractTSDefinitions(content)) = ""
    THEN Append(array, extractTSDefinitions(content))
    ELSE array

Init ==
    /\ pc = "start"
    /\ python3Available \in BOOLEAN
    /\ \E nPy \in 0..MaxFiles : \E nTS \in 0..(MaxFiles - nPy) :
         /\ pythonFiles = [i \in 1..nPy |-> PyFile(i)]
         /\ tsFiles = [i \in 1..nTS |-> TSFile(i)]
    /\ pyOldContent = <<>> /\ pyNewContent = <<>>
    /\ oldDefsArray = <<>> /\ newDefsArray = <<>>
    /\ oldDefs = Null /\ newDefs = Null /\ pythonComparison = Null
    /\ tsOldContent = <<>> /\ tsNewContent = <<>>
    /\ oldTSDefs = <<>> /\ newTSDefs = <<>>
    /\ mergedOldTS = Null /\ mergedNewTS = Null /\ tsComparison = Null
    /\ output = <<>>
    /\ exitCode = Running
    /\ detailed = Null

\* No changed file of either language: "Nothing to verify", process.exit(0).
NothingToVerify ==
    /\ pc = "start"
    /\ Len(pythonFiles) = 0 /\ Len(tsFiles) = 0
    /\ output' = Append(output, <<"log", "Nothing to verify">>)
    /\ exitCode' = 0
    /\ pc' = "exited"
    /\ UNCHANGED <<detailed, envVars, pyVars, tsVars>>

StartVerify ==
    /\ pc = "start"
    /\ ~(Len(pythonFiles) = 0 /\ Len(tsFiles) = 0)
    /\ pc' = IF Len(pythonFiles) > 0 THEN "py_old" ELSE "ts_old"
    /\ UNCHANGED <<detailed, envVars, pyVars, tsVars, outVars>>

\* One iteration of the loop over pythonFiles that fills oldDefsArray.
PyExtractOld ==
    /\ pc = "py_old"
    /\ Len(pyOldContent) < Len(pythonFiles)
    /\ \E content \in PyTexts :
         /\ pyOldContent' = Append(pyOldContent, content)
         /\ IF content # EmptyText /\ ~python3Available
            THEN /\ pc' = "fatal"
                 /\ UNCHANGED <<oldDefsArray, output>>
            ELSE /\ oldDefsArray' = PushPython(oldDefsArray, content)
                 /\ output' = output \o LogPython(content, pythonFiles[Len(pyOldContent) + 1])
                 /\ pc' = pc
    /\ UNCHANGED <<detailed, envVars, pyNewContent, newDefsArray, oldDefs, newDefs, pythonComparison,
                   tsVars, exitCode>>

PyMergeOld ==
    /\ pc = "py_old"
    /\ Len(pyOldContent) = Len(pythonFiles)
    /\ oldDefs' = mergeDefinitions(oldDefsArray)
    /\ output' = output \o <<<<"log", "Functions", ToString(Len(oldDefs'.functions))>>,
                             <<"log", "Classes", ToString(Len(oldDefs'.classes))>>>>
    /\ pc' = "py_new"
    /\ UNCHANGED <<detailed, envVars, pyOldContent, pyNewContent, oldDefsArray, newDefsArray, newDefs,
                   pythonComparison, tsVars, exitCode>>

\* One iteration of the loop over pythonFiles that fills newDefsArray.
PyExtractNew ==
    /\ pc = "py_new"
    /\ Len(pyNewContent) < Len(pythonFiles)
    /\ \E content \in PyTexts :
         /\ pyNewContent' = Append(pyNewContent, content)
         /\ IF content # EmptyText /\ ~python3Available
            THEN /\ pc' = "fatal"
                 /\ UNCHANGED <<newDefsArray, output>>
            ELSE /\ newDefsArray' = PushPython(newDefsArray, content)
                 /\ output' = output \o LogPython(content, pythonFiles[Len(pyNewContent) + 1])
                 /\ pc' = pc
    /\ UNCHANGED <<detailed, envVars, pyOldContent, oldDefsArray, oldDefs, newDefs, pythonComparison,
                   tsVars, exitCode>>

PyMergeNew ==
    /\ pc = "py_new"
    /\ Len(pyNewContent) = Len(pythonFiles)
    /\ newDefs' = mergeDefinitions(newDefsArray)
    /\ output' = output \o <<<<"log", "Functions", ToString(Len(newDefs'.functions))>>,
                             <<"log", "Classes", ToString(Len(newDefs'.classes))>>>>
    /\ pc' = "py_compare"
    /\ UNCHANGED <<detailed, envVars, pyOldContent, pyNewContent, oldDefsArray, newDefsArray, oldDefs,
                   pythonComparison, tsVars, exitCode>>

\* pythonComparison = compareDefinitions(oldDefs, newDefs), then its report.
PyCompare ==
    /\ pc = "py_compare"
    /\ pythonComparison' = compareDefinitions(oldDefs, newDefs)
    /\ output' = output \o printComparisonResults(pythonComparison', "PYTHON")
    /\ pc' = IF Len(tsFiles) > 0 THEN "ts_old" ELSE "verdict"
    /\ UNCHANGED <<detailed, envVars, pyOldContent, pyNewContent, oldDefsArray, newDefsArray, oldDefs,
                   newDefs, tsVars, exitCode>>

\* One iteration of the loop over tsFiles that fills oldTSDefs.
TSExtractOld ==
    /\ pc = "ts_old"
    /\ Len(tsOldContent) < Len(tsFiles)
    /\ \E content \in TSTexts :
         /\ tsOldContent' = Append(tsOldContent, content)
         /\ oldTSDefs' = PushTS(oldTSDefs, content)
    /\ UNCHANGED <<pc, detailed, envVars, pyVars, tsNewContent, newTSDefs, mergedOldTS, mergedNewTS,
                   tsComparison, outVars>>

TSMergeOld ==
    /\ pc = "ts_old"
    /\ Len(tsOldContent) = Len(tsFiles)
    /\ mergedOldTS' = mergeTSDefinitions(oldTSDefs)
    /\ output' = Append(output, <<"log", "Definitions", ToString(Len(mergedOldTS'.items))>>)
    /\ pc' = "ts_new"
    /\ UNCHANGED <<detailed, envVars, pyVars, tsOldContent, tsNewContent, oldTSDefs, newTSDefs,
                   mergedNewTS, tsComparison, exitCode>>

\* One iteration of the loop over tsFiles that fills newTSDefs.
TSExtractNew ==
    /\ pc = "ts_new"
    /\ Len(tsNewContent) < Len(tsFiles)
    /\ \E content \in TSTexts :
         /\ tsNewContent' = Append(tsNewContent, content)
         /\ newTSDefs' = PushTS(newTSDefs, content)
    /\ UNCHANGED <<pc, detailed, envVars, pyVars, tsOldContent, oldTSDefs, mergedOldTS, mergedNewTS,
                   tsComparison, outVars>>

TSMergeNew ==
    /\ pc = "ts_new"
    /\ Len(tsNewContent) = Len(tsFiles)
    /\ mergedNewTS' = mergeTSDefinitions(newTSDefs)
    /\ output' = Append(output, <<"log", "Definitions", ToString(Len(mergedNewTS'.items))>>)
    /\ pc' = "ts_compare"
    /\ UNCHANGED <<detailed, envVars, pyVars, tsOldContent, tsNewContent, oldTSDefs, newTSDefs,
                   mergedOldTS, tsComparison, exitCode>>

\* tsComparison = compareTSDefinitions(mergedOldTS, mergedNewTS), then its report.
TSCompare ==
    /\ pc = "ts_compare"
    /\ tsComparison' = compareTSDefinitions(mergedOldTS, mergedNewTS)
    /\ output' = output \o printComparisonResults(tsComparison', "TYPESCRIPT")
    /\ pc' = "verdict"
    /\ UNCHANGED <<detailed, envVars, pyVars, tsOldContent, tsNewContent, oldTSDefs, newTSDefs,
                   mergedOldTS, mergedNewTS, exitCode>>

\* A verdict that takes every comparison for identical
IdenticalOrTrue_Always(comparison) == TRUE

\* comparison?.identical ?? true
IdenticalOrTrue(comparison) == IF comparison = Null THEN TRUE ELSE comparison.identical

\* A verdict that may be given as soon as the Python files are compared
Verdict_Early ==
    /\ pc \in {"verdict", "ts_old"}
    /\ IF IdenticalOrTrue(pythonComparison) /\ IdenticalOrTrue(tsComparison)
       THEN /\ output' = Append(output, <<"log", "VERIFICATION PASSED">>)
            /\ exitCode' = 0
       ELSE /\ output' = Append(output, <<"log", "VERIFICATION FAILED">>)
            /\ exitCode' = 1
    /\ pc' = "exited"
    /\ UNCHANGED <<detailed, envVars, pyVars, tsVars>>

\* The final verdict of main.
Verdict ==
    /\ pc = "verdict"
    /\ IF IdenticalOrTrue(pythonComparison) /\ IdenticalOrTrue(tsComparison)
       THEN /\ output' = Append(output, <<"log", "VERIFICATION PASSED">>)
            /\ exitCode' = 0
       ELSE /\ output' = Append(output, <<"log", "VERIFICATION FAILED">>)
            /\ exitCode' = 1
    /\ pc' = "exited"
    /\ UNCHANGED <<detailed, envVars, pyVars, tsVars>>

\* main().catch: a rejection of main (Bun.spawn could not start python3).
FatalError ==
    /\ pc = "fatal"
    /\ output' = Append(output, <<"error", "Fatal error">>)
    /\ exitCode' = 1
    /\ pc' = "exited"
    /\ UNCHANGED <<detailed, envVars, pyVars, tsVars>>

Next ==
    \/ NothingToVerify
    \/ StartVerify
    \/ PyExtractOld
    \/ PyMergeOld
    \/ PyExtractNew
    \/ PyMergeNew
    \/ PyCompare
    \/ TSExtractOld
    \/ TSMergeOld
    \/ TSExtractNew
    \/ TSMergeNew
    \/ TSCompare
    \/ Verdict
    \/ FatalError

Spec == Init /\ [][Next]_vars

\* ------------------------------------- the comparison on any two definition sets

\* The definitions a set may hold here: per slot, none or one of the bodies.
PySlots ==
    <<[type |-> "FunctionDef", name |-> "f"], [type |-> "FunctionDef", name |-> "g"],
      [type |-> "ClassDef", name |-> "f"], [type |-> "Assign", name |-> "f"]>>

TSSlots ==
    <<[kind |-> "function", name |-> "f"], [kind |-> "function", name |-> "g"],
      [kind |-> "class", name |-> "f"], [kind |-> "variable", name |-> "f"]>>

Reverse(s) == [i \in 1..Len(s) |-> s[Len(s) + 1 - i]]

RECURSIVE PyModuleOf(_, _)
\* The module that defines slot i with body choice[i], for each choice[i] > 0
PyModuleOf(choice, i) ==
    IF i > Len(PySlots) THEN <<>>
    ELSE (IF choice[i] = 0 THEN <<>>
          ELSE <<[type |-> PySlots[i].type, name |-> PySlots[i].name,
                  impl |-> Body(choice[i])]>>)
         \o PyModuleOf(choice, i + 1)

RECURSIVE TSModuleOf(_, _)
TSModuleOf(choice, i) ==
    IF i > Len(TSSlots) THEN <<>>
    ELSE (IF choice[i] = 0 THEN <<>>
          ELSE <<[kind |-> TSSlots[i].kind, name |-> TSSlots[i].name, init |-> "arrow",
                  text |-> Raw(choice[i], FALSE)]>>)
         \o TSModuleOf(choice, i + 1)

\* Every merged Python definition set over the slots, in both key orders.
PyDefinitionSets ==
    LET modules == {PyModuleOf(c, 1) : c \in [1..Len(PySlots) -> 0..MaxBody]}
    IN  {mergeDefinitions(<<extract_definitions([status |-> "ok", body |-> m])>>) :
            m \in modules \cup {Reverse(m) : m \in modules}}

\* Every merged TypeScript definition set over the slots, in both key orders.
TSDefinitionSets ==
    LET modules == {TSModuleOf(c, 1) : c \in [1..Len(TSSlots) -> 0..MaxBody]}
    IN  {mergeTSDefinitions(<<extractTSDefinitions([status |-> "ok", nodes |-> m])>>) :
            m \in modules \cup {Reverse(m) : m \in modules}}

\* main at the call of compareDefinitions or of compareTSDefinitions, with
\* any two merged definition sets of that language.
InitCompare ==
    /\ python3Available = TRUE
    /\ pyOldContent = <<>> /\ pyNewContent = <<>>
    /\ oldDefsArray = <<>> /\ newDefsArray = <<>>
    /\ tsOldContent = <<>> /\ tsNewContent = <<>>
    /\ oldTSDefs = <<>> /\ newTSDefs = <<>>
    /\ pythonComparison = Null /\ tsComparison = Null
    /\ output = <<>>
    /\ exitCode = Running
    /\ detailed = Null
    /\ \/ /\ pc = "py_compare"
          /\ pythonFiles = <<PyFile(1)>> /\ tsFiles = <<>>
          /\ oldDefs \in PyDefinitionSets /\ newDefs \in PyDefinitionSets
          /\ mergedOldTS = Null /\ mergedNewTS = Null
       \/ /\ pc = "ts_compare"
          /\ pythonFiles = <<>> /\ tsFiles = <<TSFile(1)>>
          /\ oldDefs = Null /\ newDefs = Null
          /\ mergedOldTS \in TSDefinitionSets /\ mergedNewTS \in TSDefinitionSets

NextCompare ==
    \/ PyCompare
    \/ TSCompare
    \/ Verdict

SpecCompare == InitCompare /\ [][NextCompare]_vars

\* ------------------------------------------------------------- properties

\* How often x occurs in a list
Occurrences(list, x) == Cardinality({i \in 1..Len(list) : list[i] = x})

\* The qualified names of a Python definition set
PyNamesOf(defs) ==
    {PyLabel("function", k) : k \in KeySet(defs.functions)}
    \cup {PyLabel("class", k) : k \in KeySet(defs.classes)}
    \cup {PyLabel("assignment", k) : k \in KeySet(defs.assignments)}
    \cup {PyLabel("type_alias", k) : k \in KeySet(defs.type_aliases)}

\* The qualified names of the functions and classes of a Python definition set
PyComparedNamesOf(defs) ==
    {PyLabel("function", k) : k \in KeySet(defs.functions)}
    \cup {PyLabel("class", k) : k \in KeySet(defs.classes)}

\* The fingerprint a Python definition set holds for a qualified name
PyHashOf(defs, q) ==
    CASE \E k \in KeySet(defs.functions) : q = PyLabel("function", k) ->
           Get(defs.functions, CHOOSE k \in KeySet(defs.functions) : q = PyLabel("function", k)).body_hash
      [] \E k \in KeySet(defs.classes) : q = PyLabel("class", k) ->
           Get(defs.classes, CHOOSE k \in KeySet(defs.classes) : q = PyLabel("class", k)).body_hash
      [] \E k \in KeySet(defs.assignments) : q = PyLabel("assignment", k) ->
           Get(defs.assignments, CHOOSE k \in KeySet(defs.assignments) : q = PyLabel("assignment", k)).value_hash
      [] OTHER ->
           Get(defs.type_aliases, CHOOSE k \in KeySet(defs.type_aliases) : q = PyLabel("type_alias", k)).value_hash

\* The qualified names of the modified entries of a Python result, in order
PyModifiedNames(result) ==
    [i \in 1..Len(result.modified) |->
        PyLabel(result.modified[i].type, result.modified[i].name)]

\* The qualified names of the modified entries of a TypeScript result
TSModifiedNames(result) == [i \in 1..Len(result.modified) |-> result.modified[i].name]

\* The four lists of a result one after the other, modified by name
PyListed(result) ==
    result.removed \o result.added \o PyModifiedNames(result) \o result.matching
TSListed(result) ==
    result.removed \o result.added \o TSModifiedNames(result) \o result.matching

\* names is split over the four lists of a result whose entries are listed:
\* each name once, and nothing else listed
Partitions(listed, names) ==
    /\ \A q \in names : Occurrences(listed, q) = 1
    /\ Range(listed) \subseteq names

PyCompared == pythonComparison # Null
TSCompared == tsComparison # Null

\* C1: after compare, every qualified name of old or new is in exactly one
\* of removed, added, modified, matching, and the lists hold no other name.
C1_PartitionComplete ==
    /\ PyCompared =>
         Partitions(PyListed(pythonComparison), PyNamesOf(oldDefs) \cup PyNamesOf(newDefs))
    /\ TSCompared =>
         Partitions(TSListed(tsComparison),
                    KeySet(mergedOldTS.items) \cup KeySet(mergedNewTS.items))

\* C1, for what compareDefinitions reads (functions and classes) and for
\* compareTSDefinitions: the partition holds.
C1_ComparedNamesPartitioned ==
    /\ PyCompared =>
         Partitions(PyListed(pythonComparison),
                    PyComparedNamesOf(oldDefs) \cup PyComparedNamesOf(newDefs))
    /\ TSCompared =>
         Partitions(TSListed(tsComparison),
                    KeySet(mergedOldTS.items) \cup KeySet(mergedNewTS.items))

\* Whether removed, added and modified of a result are all empty
NoDifference(result) ==
    result.removed = <<>> /\ result.added = <<>> /\ result.modified = <<>>

\* C2: identical is true iff removed, added and modified are all empty,
\* whatever matching holds.
C2_IdenticalIffNoDifference ==
    /\ PyCompared => (pythonComparison.identical <=> NoDifference(pythonComparison))
    /\ TSCompared => (tsComparison.identical <=> NoDifference(tsComparison))

\* C2 witness: a result whose only difference is an added name, beside a
\* matching one, with identical false.
C2_Witness ==
    /\ PyCompared
    /\ pythonComparison.removed = <<>> /\ pythonComparison.modified = <<>>
    /\ Len(pythonComparison.added) = 1 /\ Len(pythonComparison.matching) >= 1
    /\ ~pythonComparison.identical

\* C5: comparing a definition set against itself gives identical = true,
\* every definition in matching, and removed, added, modified empty.
C5_SelfCompareAllMatching ==
    /\ (PyCompared /\ oldDefs = newDefs) =>
         /\ pythonComparison.identical
         /\ NoDifference(pythonComparison)
         /\ Range(pythonComparison.matching) = PyNamesOf(oldDefs)
    /\ (TSCompared /\ mergedOldTS = mergedNewTS) =>
         /\ tsComparison.identical
         /\ NoDifference(tsComparison)
         /\ Range(tsComparison.matching) = KeySet(mergedOldTS.items)

\* C5, for the functions and classes of a Python set and for TypeScript:
\* the self comparison is identical with all of them in matching.
C5_SelfCompareComparedNames ==
    /\ (PyCompared /\ oldDefs = newDefs) =>
         /\ pythonComparison.identical
         /\ NoDifference(pythonComparison)
         /\ Range(pythonComparison.matching) = PyComparedNamesOf(oldDefs)
    /\ (TSCompared /\ mergedOldTS = mergedNewTS) =>
         /\ tsComparison.identical
         /\ NoDifference(tsComparison)
         /\ Range(tsComparison.matching) = KeySet(mergedOldTS.items)

\* The reference set difference over the names and fingerprints of two sets.
RefRemoved(oldNames, newNames) == oldNames \ newNames
RefAdded(oldNames, newNames) == newNames \ oldNames

\* Every modified entry carries the two fingerprints, which differ
ModifiedCarryHashes(result) ==
    \A i \in 1..Len(result.modified) :
        result.modified[i].oldHash # result.modified[i].newHash

\* C6: removed = old \ new, added = new \ old, modified = the common names
\* whose fingerprints differ (both carried, unequal), matching = the common
\* names whose fingerprints are equal.
C6_EqualsSetDiff ==
    /\ PyCompared =>
         LET O == PyNamesOf(oldDefs)
             N == PyNamesOf(newDefs)
         IN  /\ Range(pythonComparison.removed) = RefRemoved(O, N)
             /\ Range(pythonComparison.added) = RefAdded(O, N)
             /\ Range(PyModifiedNames(pythonComparison)) =
                  {q \in O \cap N : PyHashOf(oldDefs, q) # PyHashOf(newDefs, q)}
             /\ Range(pythonComparison.matching) =
                  {q \in O \cap N : PyHashOf(oldDefs, q) = PyHashOf(newDefs, q)}
             /\ ModifiedCarryHashes(pythonComparison)
    /\ TSCompared =>
         LET O == KeySet(mergedOldTS.items)
             N == KeySet(mergedNewTS.items)
         IN  /\ Range(tsComparison.removed) = RefRemoved(O, N)
             /\ Range(tsComparison.added) = RefAdded(O, N)
             /\ Range(TSModifiedNames(tsComparison)) =
                  {q \in O \cap N : Get(mergedOldTS.items, q).body_hash
                                      # Get(mergedNewTS.items, q).body_hash}
             /\ Range(tsComparison.matching) =
                  {q \in O \cap N : Get(mergedOldTS.items, q).body_hash
                                      = Get(mergedNewTS.items, q).body_hash}
             /\ ModifiedCarryHashes(tsComparison)

\* C6, for the functions and classes of the Python sets and for TypeScript.
C6_ComparedNamesSetDiff ==
    /\ PyCompared =>
         LET O == PyComparedNamesOf(oldDefs)
             N == PyComparedNamesOf(newDefs)
         IN  /\ Range(pythonComparison.removed) = RefRemoved(O, N)
             /\ Range(pythonComparison.added) = RefAdded(O, N)
             /\ Range(PyModifiedNames(pythonComparison)) =
                  {q \in O \cap N : PyHashOf(oldDefs, q) # PyHashOf(newDefs, q)}
             /\ Range(pythonComparison.matching) =
                  {q \in O \cap N : PyHashOf(oldDefs, q) = PyHashOf(newDefs, q)}
             /\ ModifiedCarryHashes(pythonComparison)
    /\ TSCompared =>
         LET O == KeySet(mergedOldTS.items)
             N == KeySet(mergedNewTS.items)
         IN  /\ Range(tsComparison.removed) = RefRemoved(O, N)
             /\ Range(tsComparison.added) = RefAdded(O, N)
             /\ Range(TSModifiedNames(tsComparison)) =
                  {q \in O \cap N : Get(mergedOldTS.items, q).body_hash
                                      # Get(mergedNewTS.items, q).body_hash}
             /\ Range(tsComparison.matching) =
                  {q \in O \cap N : Get(mergedOldTS.items, q).body_hash
                                      = Get(mergedNewTS.items, q).body_hash}
             /\ ModifiedCarryHashes(tsComparison)

\* The qualified names and fingerprints of a TypeScript definition set
TSHashOf(defs, q) == Get(defs.items, q).body_hash

\* Some file of the old revision and some file of the new one were extracted
\* with a definition of the same qualified name and different normalized
\* bodies (fingerprints of different normalized bodies differ).
PyTextsDiffer ==
    \E d \in Range(oldDefsArray) : \E e \in Range(newDefsArray) :
        \E q \in PyNamesOf(d) \cap PyNamesOf(e) : PyHashOf(d, q) # PyHashOf(e, q)
TSTextsDiffer ==
    \E d \in Range(oldTSDefs) : \E e \in Range(newTSDefs) :
        \E q \in KeySet(d.items) \cap KeySet(e.items) : TSHashOf(d, q) # TSHashOf(e, q)

\* C3: when a definition of some old file and the same-named definition of
\* some new file have different normalized bodies, the comparison is not
\* identical and the run ends with the failure status.
C3_TextualInequalityReported ==
    /\ (PyCompared /\ PyTextsDiffer) => ~pythonComparison.identical
    /\ (TSCompared /\ TSTextsDiffer) => ~tsComparison.identical
    /\ (pc = "exited" /\ (PyTextsDiffer \/ TSTextsDiffer)) => exitCode = 1

\* Whether the extraction of a text fails
PyFails(content) == content.status \in {"syntax", "crash"}
TSFails(content) == content.status \in {"syntax", "throw"}

\* The console names the file as one that could not be extracted, or the run
\* ended with the fatal error
FailureReported(file) ==
    \E k \in 1..Len(output) :
        \/ output[k] = <<"error", "Error processing", file>>
        \/ output[k] = <<"error", "Fatal error">>

\* How many of the texts extract without failure
Extracted(contents) ==
    Cardinality({i \in 1..Len(contents) : contents[i].status = "ok"})

\* C9: the definitions of every file whose extraction fails are left out of
\* the revision's set, and the report names the file as an extraction
\* failure.
C9_FailuresLeftOutAndReported ==
    pc = "exited" =>
        /\ \A i \in 1..Len(pyOldContent) :
             PyFails(pyOldContent[i]) => FailureReported(pythonFiles[i])
        /\ \A i \in 1..Len(pyNewContent) :
             PyFails(pyNewContent[i]) => FailureReported(pythonFiles[i])
        /\ \A i \in 1..Len(tsOldContent) :
             TSFails(tsOldContent[i]) => FailureReported(tsFiles[i])
        /\ \A i \in 1..Len(tsNewContent) :
             TSFails(tsNewContent[i]) => FailureReported(tsFiles[i])
        /\ Len(oldDefsArray) <= Extracted(pyOldContent)
        /\ Len(newDefsArray) <= Extracted(pyNewContent)
        /\ Len(oldTSDefs) <= Extracted(tsOldContent)
        /\ Len(newTSDefs) <= Extracted(tsNewContent)

\* The texts without those that have a syntax error
WithoutSyntaxErrors(contents) ==
    SelectSeq(contents, LAMBDA c : c.status # "syntax")

RECURSIVE PushAllPython(_, _)
PushAllPython(array, contents) ==
    IF contents = <<>> THEN array
    ELSE PushAllPython(PushPython(array, Head(contents)), Tail(contents))

RECURSIVE PushAllTS(_, _)
PushAllTS(array, contents) ==
    IF contents = <<>> THEN array
    ELSE PushAllTS(PushTS(array, Head(contents)), Tail(contents))

\* C10: a text with a syntax error makes the extractor return an error, and
\* gives the merged set of its revision no definition: the set is the one
\* the other files alone give.
C10_FailsClosed ==
    /\ \A i \in 1..Len(pyOldContent) : pyOldContent[i].status = "syntax" =>
            ErrorOf(extractPythonDefinitions(pyOldContent[i])) # ""
    /\ \A i \in 1..Len(tsOldContent) : tsOldContent[i].status = "syntax" =>
            ErrorOf(extractTSDefinitions(tsOldContent[i])) # ""
    /\ oldDefs # Null =>
         oldDefs = mergeDefinitions(PushAllPython(<<>>, WithoutSyntaxErrors(pyOldContent)))
    /\ newDefs # Null =>
         newDefs = mergeDefinitions(PushAllPython(<<>>, WithoutSyntaxErrors(pyNewContent)))
    /\ mergedOldTS # Null =>
         mergedOldTS = mergeTSDefinitions(PushAllTS(<<>>, WithoutSyntaxErrors(tsOldContent)))
    /\ mergedNewTS # Null =>
         mergedNewTS = mergeTSDefinitions(PushAllTS(<<>>, WithoutSyntaxErrors(tsNewContent)))

\* C10, for Python: a syntax error gives the error object and no definition.
C10_PythonFailsClosed ==
    /\ \A i \in 1..Len(pyOldContent) : pyOldContent[i].status = "syntax" =>
            ErrorOf(extractPythonDefinitions(pyOldContent[i])) # ""
    /\ oldDefs # Null =>
         oldDefs = mergeDefinitions(PushAllPython(<<>>, WithoutSyntaxErrors(pyOldContent)))
    /\ newDefs # Null =>
         newDefs = mergeDefinitions(PushAllPython(<<>>, WithoutSyntaxErrors(pyNewContent)))

\* ------------------------------------ the detailed script: Python analysis

\* extract_definitions of the detailed PYTHON_EXTRACTOR keeps, of the same
\* top-level functions and classes, the unparsed body alone.
DetailedBodies(map) ==
    [i \in 1..Len(map) |-> [key |-> map[i].key, val |-> map[i].val.body]]

\* oldDefs or newDefs of the detailed main once every file is assigned: the
\* functions and classes of the same files, name to body.
DetailedDefinitions(defs) ==
    [functions |-> DetailedBodies(defs.functions),
     classes |-> DetailedBodies(defs.classes)]

\* Object.values(obj)
Values(obj) == {obj[i].val : i \in 1..Len(obj)}

\* oldCode.replace(new RegExp(`\\b${oldName}\\b`, "g"), newName)
ReplaceWord(code, oldName, newName) ==
    [i \in 1..Len(code) |-> IF code[i] = oldName THEN newName ELSE code[i]]

RECURSIVE RenamedFunctions(_, _, _)
\* "Check renamed functions": one entry per pair of renames whose old name is
\* among the old functions and whose new name is among the new ones.
RenamedFunctions(entries, oldFunctions, newFunctions) ==
    IF entries = <<>> THEN <<>>
    ELSE LET oldName == Head(entries).key
             newName == Head(entries).val
         IN  (IF Has(oldFunctions, oldName) /\ Has(newFunctions, newName)
              THEN <<[oldName |-> oldName, newName |-> newName,
                      identical |-> ReplaceWord(Get(oldFunctions, oldName), oldName, newName)
                                      = Get(newFunctions, newName)]>>
              ELSE <<>>)
             \o RenamedFunctions(Tail(entries), oldFunctions, newFunctions)

\* "Check truly removed functions"
RemovedFunctions(renames, oldFunctions, newFunctions) ==
    SelectSeq(Keys(oldFunctions),
              LAMBDA name : ~Has(newFunctions, name) /\ ~Has(renames, name))

\* "Check truly added functions"
AddedFunctions(renames, oldFunctions, newFunctions) ==
    SelectSeq(Keys(newFunctions),
              LAMBDA name : ~Has(oldFunctions, name) /\ name \notin Values(renames))

\* "Check modified functions" and "Check modified classes"
ModifiedNames(oldMap, newMap) ==
    SelectSeq(Keys(oldMap),
              LAMBDA name : Has(newMap, name) /\ Get(oldMap, name) # Get(newMap, name))

\* [...oldNames].filter(n => newNames.has(n) && old[n] === new[n]).length
IdenticalCount(oldMap, newMap) ==
    Len(SelectSeq(Keys(oldMap),
                  LAMBDA name : Has(newMap, name) /\ Get(oldMap, name) = Get(newMap, name)))

\* The tables the constant renames may be edited to: up to two pairs of
\* different names.
RenamePairs == {p \in Names \X Names : p[1] # p[2]}
RenameTables ==
    {EmptyObj}
    \cup {Put(EmptyObj, p[1], p[2]) : p \in RenamePairs}
    \cup {Put(Put(EmptyObj, pq[1][1], pq[1][2]), pq[2][1], pq[2][2]) :
            pq \in {x \in RenamePairs \X RenamePairs : x[1][1] # x[2][1]}}

\* The definition sets of functions and classes
FunctionAndClassSets == {d \in PyDefinitionSets : d.assignments = EmptyObj}

\* Both scripts on the same changed Python file: the summary script at the
\* call of compareDefinitions, the detailed one at the function analysis.
InitDetailed ==
    /\ python3Available = TRUE
    /\ pyOldContent = <<>> /\ pyNewContent = <<>>
    /\ oldDefsArray = <<>> /\ newDefsArray = <<>>
    /\ tsOldContent = <<>> /\ tsNewContent = <<>>
    /\ oldTSDefs = <<>> /\ newTSDefs = <<>>
    /\ mergedOldTS = Null /\ mergedNewTS = Null
    /\ pythonComparison = Null /\ tsComparison = Null
    /\ output = <<>>
    /\ exitCode = Running
    /\ pc = "py_compare"
    /\ pythonFiles = <<PyFile(1)>> /\ tsFiles = <<>>
    /\ oldDefs \in FunctionAndClassSets /\ newDefs \in FunctionAndClassSets
    /\ \E table \in RenameTables :
         detailed = [pc |-> "renamed",
                     renames |-> table,
                     oldDefs |-> DetailedDefinitions(oldDefs),
                     newDefs |-> DetailedDefinitions(newDefs),
                     renamed |-> <<>>, removed |-> <<>>, added |-> <<>>,
                     modified |-> <<>>, modifiedClasses |-> <<>>,
                     pythonStats |-> [funcMatches |-> 0, funcTotal |-> 0,
                                      classMatches |-> 0, classTotal |-> 0]]

summaryVars == <<pc, envVars, pyVars, tsVars, outVars>>

DetailedAt(position) == detailed # Null /\ detailed.pc = position

DetailedRenamed ==
    /\ DetailedAt("renamed")
    /\ detailed' = [detailed EXCEPT
            !.renamed = RenamedFunctions(detailed.renames, detailed.oldDefs.functions,
                                         detailed.newDefs.functions),
            !.pc = "removed"]
    /\ UNCHANGED summaryVars

DetailedRemoved ==
    /\ DetailedAt("removed")
    /\ detailed' = [detailed EXCEPT
            !.removed = RemovedFunctions(detailed.renames, detailed.oldDefs.functions,
                                         detailed.newDefs.functions),
            !.pc = "added"]
    /\ UNCHANGED summaryVars

DetailedAdded ==
    /\ DetailedAt("added")
    /\ detailed' = [detailed EXCEPT
            !.added = AddedFunctions(detailed.renames, detailed.oldDefs.functions,
                                     detailed.newDefs.functions),
            !.pc = "modified"]
    /\ UNCHANGED summaryVars

DetailedModified ==
    /\ DetailedAt("modified")
    /\ detailed' = [detailed EXCEPT
            !.modified = ModifiedNames(detailed.oldDefs.functions,
                                       detailed.newDefs.functions),
            !.pc = "classes"]
    /\ UNCHANGED summaryVars

DetailedModifiedClasses ==
    /\ DetailedAt("classes")
    /\ detailed' = [detailed EXCEPT
            !.modifiedClasses = ModifiedNames(detailed.oldDefs.classes,
                                              detailed.newDefs.classes),
            !.pc = "stats"]
    /\ UNCHANGED summaryVars

DetailedStats ==
    /\ DetailedAt("stats")
    /\ detailed' = [detailed EXCEPT
            !.pythonStats =
                [funcMatches |-> IdenticalCount(detailed.oldDefs.functions,
                                                detailed.newDefs.functions),
                 funcTotal |-> Len(detailed.oldDefs.functions),
                 classMatches |-> IdenticalCount(detailed.oldDefs.classes,
                                                 detailed.newDefs.classes),
                 classTotal |-> Len(detailed.oldDefs.classes)],
            !.pc = "done"]
    /\ UNCHANGED summaryVars

NextDetailed ==
    \/ PyCompare
    \/ Verdict
    \/ DetailedRenamed
    \/ DetailedRemoved
    \/ DetailedAdded
    \/ DetailedModified
    \/ DetailedModifiedClasses
    \/ DetailedStats

SpecDetailed == InitDetailed /\ [][NextDetailed]_vars

\* ------------------------------------------------------ properties: renames

\* The pairs of the rename table
Aliases == IF detailed = Null THEN {}
           ELSE {<<detailed.renames[i].key, detailed.renames[i].val>> :
                    i \in 1..Len(detailed.renames)}

\* The old name is among the old functions and the new name among the new
AliasApplies(a) ==
    Has(detailed.oldDefs.functions, a[1]) /\ Has(detailed.newDefs.functions, a[2])

\* ... and the body is the same but for the name
JustRenamed(a) ==
    /\ AliasApplies(a)
    /\ ReplaceWord(Get(detailed.oldDefs.functions, a[1]), a[1], a[2])
         = Get(detailed.newDefs.functions, a[2])

\* The revisions differ by the rename a alone
OnlyRenamed(a) ==
    /\ JustRenamed(a)
    /\ KeySet(detailed.oldDefs.functions) = {a[1]}
    /\ KeySet(detailed.newDefs.functions) = {a[2]}
    /\ detailed.oldDefs.classes = detailed.newDefs.classes

\* C4: a function renamed as the table says, with the same body, is a
\* rename match: the old name is not reported removed, the new name is not
\* reported added, the pair counts as matching and, with no other change,
\* the result is identical.
C4_RenameCountedAsMatching ==
    \A a \in Aliases : JustRenamed(a) =>
        /\ DetailedAt("done") =>
             /\ [oldName |-> a[1], newName |-> a[2], identical |-> TRUE]
                    \in Range(detailed.renamed)
             /\ a[1] \notin Range(detailed.removed)
             /\ a[2] \notin Range(detailed.added)
             /\ OnlyRenamed(a) =>
                    detailed.pythonStats.funcMatches = detailed.pythonStats.funcTotal
        /\ PyCompared =>
             /\ PyLabel("function", a[1]) \notin Range(pythonComparison.removed)
             /\ PyLabel("function", a[2]) \notin Range(pythonComparison.added)
             /\ OnlyRenamed(a) => pythonComparison.identical

\* C4, as far as the detailed report's lists go: the pair is printed as
\* renamed with an identical body, and neither as removed nor as added.
C4_RenameListedAsRenamed ==
    \A a \in Aliases : (JustRenamed(a) /\ DetailedAt("done")) =>
        /\ [oldName |-> a[1], newName |-> a[2], identical |-> TRUE]
               \in Range(detailed.renamed)
        /\ a[1] \notin Range(detailed.removed)
        /\ a[2] \notin Range(detailed.added)

\* C7: a pair of the table has an effect only when it applies: an old name
\* that no pair renames and the new revision lacks is reported removed, and
\* a new name that no pair yields and the old revision lacks is reported
\* added.
C7_AliasNeedsBothEnds ==
    DetailedAt("done") =>
        /\ \A name \in KeySet(detailed.oldDefs.functions) :
             (/\ ~Has(detailed.newDefs.functions, name)
              /\ \A a \in Aliases : a[1] = name => ~AliasApplies(a))
             => name \in Range(detailed.removed)
        /\ \A name \in KeySet(detailed.newDefs.functions) :
             (/\ ~Has(detailed.oldDefs.functions, name)
              /\ \A a \in Aliases : a[2] = name => ~AliasApplies(a))
             => name \in Range(detailed.added)

\* C8: the two names of a pair that applies are in none of the removed,
\* added and modified lists.
C8_RenamedPairCountedOnce ==
    DetailedAt("done") =>
        \A a \in Aliases : AliasApplies(a) =>
            /\ a[1] \notin Range(detailed.removed)
            /\ a[2] \notin Range(detailed.added)
            /\ a[1] \notin Range(detailed.modified)
            /\ a[2] \notin Range(detailed.modified)

\* C8, as far as removed and added go.
C8_RenamedPairNotRemovedNorAdded ==
    DetailedAt("done") =>
        \A a \in Aliases : AliasApplies(a) =>
            /\ a[1] \notin Range(detailed.removed)
            /\ a[2] \notin Range(detailed.added)

\* ------------------------------------------- properties: failures of a run

\* What reading one new Python text does to newDefsArray and to the console
PyReadEffect(content, file) == <<PushPython(<<>>, content), LogPython(content, file)>>

\* What reading one new TypeScript text does to newTSDefs (nothing is printed)
TSReadEffect(content) == PushTS(<<>>, content)

\* C11: a new text that does not parse is not taken for a deleted file: what
\* the run keeps and prints for it differs from what it keeps and prints for
\* the empty text, and the console names the file as not extracted.
C11_ParseFailureNotDeletion ==
    /\ \A i \in 1..Len(pyNewContent) :
         (python3Available /\ pyNewContent[i].status = "syntax") =>
            /\ PyReadEffect(pyNewContent[i], pythonFiles[i])
                 # PyReadEffect(EmptyText, pythonFiles[i])
            /\ pc = "exited" => FailureReported(pythonFiles[i])
    /\ \A i \in 1..Len(tsNewContent) :
         tsNewContent[i].status = "syntax" =>
            /\ TSReadEffect(tsNewContent[i]) # TSReadEffect(EmptyText)
            /\ pc = "exited" => FailureReported(tsFiles[i])

\* The qualified names a text defines when it parses
PyDefinedBy(content) ==
    IF content.status = "ok" THEN PyNamesOf(extractPythonDefinitions(content)) ELSE {}
PyComparedDefinedBy(content) ==
    IF content.status = "ok" THEN PyComparedNamesOf(extractPythonDefinitions(content))
    ELSE {}
TSDefinedBy(content) ==
    IF content.status = "ok" THEN KeySet(extractTSDefinitions(content).items) ELSE {}

\* The qualified names a text gives the revision's set in any way
PyYields(content) ==
    IF content = EmptyText THEN {}
    ELSE UNION {PyNamesOf(d) : d \in Range(PushPython(<<>>, content))}
TSYields(content) ==
    IF content = EmptyText THEN {}
    ELSE UNION {KeySet(d.items) : d \in Range(PushTS(<<>>, content))}

\* The names of the old text of file i that no other new text yields
PyOnlyIn(i, names) ==
    {q \in names : \A j \in 1..Len(pyNewContent) : j # i => q \notin PyYields(pyNewContent[j])}
TSOnlyIn(i) ==
    {q \in TSDefinedBy(tsOldContent[i]) :
        \A j \in 1..Len(tsNewContent) : j # i => q \notin TSYields(tsNewContent[j])}

\* C12: when the new text of a file does not parse, the names its old text
\* defined and no other new file defines are removed, the result is not
\* identical and the run exits with status 1.
C12_ParseFailureRemoves ==
    /\ (pc = "exited" /\ PyCompared) =>
         \A i \in 1..Len(pyNewContent) : pyNewContent[i].status = "syntax" =>
            \A q \in PyOnlyIn(i, PyDefinedBy(pyOldContent[i])) :
                /\ q \in Range(pythonComparison.removed)
                /\ ~pythonComparison.identical
                /\ exitCode = 1
    /\ (pc = "exited" /\ TSCompared) =>
         \A i \in 1..Len(tsNewContent) : tsNewContent[i].status = "syntax" =>
            \A q \in TSOnlyIn(i) :
                /\ q \in Range(tsComparison.removed)
                /\ ~tsComparison.identical
                /\ exitCode = 1

\* C12, for the functions and classes of a Python file: they are removed
\* and the run fails.
C12_PythonFunctionsRemoved ==
    (pc = "exited" /\ PyCompared) =>
        \A i \in 1..Len(pyNewContent) : pyNewContent[i].status = "syntax" =>
            \A q \in PyOnlyIn(i, PyComparedDefinedBy(pyOldContent[i])) :
                /\ q \in Range(pythonComparison.removed)
                /\ ~pythonComparison.identical
                /\ exitCode = 1

\* Whether a language with these changed files came out identical: no
\* changed file, or a result that is identical
LanguageIdentical(files, comparison) ==
    Len(files) = 0 \/ (comparison # Null /\ comparison.identical)

\* Whether a result lists a removed, added or modified entry
HasDifference(comparison) == comparison # Null /\ ~NoDifference(comparison)

\* C13: the run exits 0 iff every language's result is identical, a language
\* without changed files counting as identical; a removed, added or modified
\* entry in any result gives exit 1; without changed files of either language
\* the run exits 0 and compares nothing.
C13_ExitStatus ==
    pc = "exited" =>
        /\ exitCode \in {0, 1}
        /\ exitCode = 0 <=> (/\ LanguageIdentical(pythonFiles, pythonComparison)
                             /\ LanguageIdentical(tsFiles, tsComparison))
        /\ (HasDifference(pythonComparison) \/ HasDifference(tsComparison)) => exitCode = 1
        /\ (Len(pythonFiles) = 0 /\ Len(tsFiles) = 0) =>
              /\ exitCode = 0
              /\ pythonComparison = Null /\ tsComparison = Null
              /\ output = <<<<"log", "Nothing to verify">>>>

\* C13 witness: a run over both languages that exits 1 with an identical
\* Python result and a TypeScript result that lists a difference.
C13_Witness ==
    /\ pc = "exited" /\ exitCode = 1
    /\ PyCompared /\ pythonComparison.identical
    /\ TSCompared /\ HasDifference(tsComparison)

\* C14: when python3 cannot be started only the Python comparison fails:
\* the changed TypeScript files are still compared and their result is
\* printed.
C14_TypeScriptStillCompared ==
    (pc = "exited" /\ ~python3Available /\ Len(tsFiles) > 0) =>
        /\ TSCompared
        /\ \E k \in 1..Len(output) : output[k] = <<"log", "TYPESCRIPT", "COMPARISON RESULTS">>

\* Every changed Python file has an old and a new text, and the extractor
\* exits non-zero on each of them
ExtractorFailsThroughout ==
    /\ Len(pythonFiles) > 0
    /\ Len(pyOldContent) = Len(pythonFiles) /\ Len(pyNewContent) = Len(pythonFiles)
    /\ \A i \in 1..Len(pythonFiles) :
         pyOldContent[i].status = "crash" /\ pyNewContent[i].status = "crash"

\* C15: when the extractor process exits non-zero on the changed Python
\* files, old and new, the run ends with a non-zero status and not with
\* VERIFICATION PASSED.
C15_ExtractorFailureNotPassed ==
    (pc = "exited" /\ ExtractorFailsThroughout) =>
        /\ exitCode # 0
        /\ \A k \in 1..Len(output) : output[k] # <<"log", "VERIFICATION PASSED">>

\* C15, as far as the diagnostic goes: each failing file is named on the
\* console.
C15_ExtractorFailureLogged ==
    (pc = "exited" /\ ExtractorFailsThroughout) =>
        \A i \in 1..Len(pythonFiles) : FailureReported(pythonFiles[i])

\* ------------------------------------------ properties: extraction, merge

\* The qualified names of the definitions at the top level of a module
PyTopLevel(body) ==
    {PyLabel("function", n.name) : n \in {x \in Range(body) : x.type = "FunctionDef"}}
    \cup {PyLabel("class", n.name) : n \in {x \in Range(body) : x.type = "ClassDef"}}
    \cup {PyLabel("assignment", n.name) : n \in {x \in Range(body) : x.type = "Assign"}}
    \cup {PyLabel("type_alias", n.name) : n \in {x \in Range(body) : x.type = "AnnAssign"}}
TSTopLevel(nodes) ==
    {TSKeyOf(n).key : n \in {x \in Range(nodes) : TSKeyOf(x) # Null}}

\* C16, for Python: the set extracted from a text has an entry for the
\* definitions at the top level of the module and for nothing else.
C16_PythonTopLevelOnly ==
    \A content \in Range(pyOldContent) \cup Range(pyNewContent) :
        content.status = "ok" =>
            PyNamesOf(extractPythonDefinitions(content)) = PyTopLevel(content.body)

\* C16: only the definitions at the top level of a text get an entry, in
\* both languages: a definition inside another one gets none.
C16_TopLevelOnly ==
    /\ C16_PythonTopLevelOnly
    /\ \A content \in Range(tsOldContent) \cup Range(tsNewContent) :
         content.status = "ok" =>
            KeySet(extractTSDefinitions(content).items) = TSTopLevel(content.nodes)

\* The last of the extracted sets that has an entry for a name
LastWith(array, q, namesOf(_)) ==
    CHOOSE i \in 1..Len(array) :
        /\ q \in namesOf(array[i])
        /\ \A j \in (i + 1)..Len(array) : q \notin namesOf(array[j])

TSNamesOf(defs) == KeySet(defs.items)

\* merged holds exactly the names of the extracted sets, each with the
\* fingerprint of the last set that has it
PyLastWriteWins(merged, array) ==
    /\ PyNamesOf(merged) = UNION {PyNamesOf(d) : d \in Range(array)}
    /\ \A q \in PyNamesOf(merged) :
         PyHashOf(merged, q) = PyHashOf(array[LastWith(array, q, PyNamesOf)], q)
TSLastWriteWins(merged, array) ==
    /\ TSNamesOf(merged) = UNION {TSNamesOf(d) : d \in Range(array)}
    /\ \A q \in TSNamesOf(merged) :
         Get(merged.items, q) = Get(array[LastWith(array, q, TSNamesOf)].items, q)

\* C17: the merged set of a revision holds, for every name, the definition
\* of the last extracted file that defines it; so a name one file alone
\* defines is kept as that file has it.
C17_LastWriteWins ==
    /\ oldDefs # Null => PyLastWriteWins(oldDefs, oldDefsArray)
    /\ newDefs # Null => PyLastWriteWins(newDefs, newDefsArray)
    /\ mergedOldTS # Null => TSLastWriteWins(mergedOldTS, oldTSDefs)
    /\ mergedNewTS # Null => TSLastWriteWins(mergedNewTS, newTSDefs)

\* C17 witness: two extracted files of the new revision define f with
\* different bodies and g comes from the first alone; the merge is done.
C17_Witness ==
    /\ newDefs # Null
    /\ Len(newDefsArray) = 2
    /\ Has(newDefsArray[1].functions, "f") /\ Has(newDefsArray[2].functions, "f")
    /\ Has(newDefsArray[1].functions, "g") /\ ~Has(newDefsArray[2].functions, "g")
    /\ Get(newDefsArray[1].functions, "f") # Get(newDefsArray[2].functions, "f")

\* Two extracted files of one revision define the same qualified name
Collides(array, namesOf(_)) ==
    \E i \in 1..Len(array) : \E j \in (i + 1)..Len(array) :
        namesOf(array[i]) \cap namesOf(array[j]) # {}

\* C18: when two files of a revision define the same qualified name the
\* console has a warning for it.
C18_CollisionWarned ==
    (/\ pc = "exited"
     /\ \/ Collides(oldDefsArray, PyNamesOf) \/ Collides(newDefsArray, PyNamesOf)
        \/ Collides(oldTSDefs, TSNamesOf) \/ Collides(newTSDefs, TSNamesOf))
    => \E k \in 1..Len(output) : output[k][1] = "warn"

\* The names and fingerprints of the extracted files of a revision
PyEntries(array) ==
    UNION {{<<q, PyHashOf(d, q)>> : q \in PyNamesOf(d)} : d \in Range(array)}
TSEntries(array) ==
    UNION {{<<q, TSHashOf(d, q)>> : q \in TSNamesOf(d)} : d \in Range(array)}

\* The new revision holds the definitions of the old one, name by name and
\* body by body, however they are spread over the files, and no name is
\* defined by two files
PyPureMove ==
    /\ ~Collides(oldDefsArray, PyNamesOf) /\ ~Collides(newDefsArray, PyNamesOf)
    /\ PyEntries(oldDefsArray) = PyEntries(newDefsArray)
TSPureMove ==
    /\ ~Collides(oldTSDefs, TSNamesOf) /\ ~Collides(newTSDefs, TSNamesOf)
    /\ TSEntries(oldTSDefs) = TSEntries(newTSDefs)

\* C19: after a pure split or move the result is identical, with every
\* definition in matching and nothing removed, added or modified.
C19_PureMoveIdentical ==
    /\ (PyCompared /\ PyPureMove) =>
         /\ pythonComparison.identical
         /\ NoDifference(pythonComparison)
         /\ Range(pythonComparison.matching) = {e[1] : e \in PyEntries(oldDefsArray)}
    /\ (TSCompared /\ TSPureMove) =>
         /\ tsComparison.identical
         /\ NoDifference(tsComparison)
         /\ Range(tsComparison.matching) = {e[1] : e \in TSEntries(oldTSDefs)}

\* C19, for the functions and classes of Python and for TypeScript: the
\* result is identical and they are all in matching.
C19_PureMoveComparedNames ==
    /\ (PyCompared /\ PyPureMove) =>
         /\ pythonComparison.identical
         /\ NoDifference(pythonComparison)
         /\ Range(pythonComparison.matching) =
               UNION {PyComparedNamesOf(d) : d \in Range(oldDefsArray)}
    /\ (TSCompared /\ TSPureMove) =>
         /\ tsComparison.identical
         /\ NoDifference(tsComparison)
         /\ Range(tsComparison.matching) = {e[1] : e \in TSEntries(oldTSDefs)}

\* A split that C19_PureMoveComparedNames covers: f and g in one old file,
\* f and g in two new files, compared.
C19_SplitReached ==
    /\ PyCompared /\ PyPureMove
    /\ Len(oldDefsArray) = 1 /\ Len(newDefsArray) = 2
    /\ Len(pythonComparison.matching) = 2

\* ------------------------------ the TypeScript comparison on any two layouts

\* The tokens of a declaration's text, one character each
TokenSeqs == {<<"x", "+", "y">>, <<"x", "-", "y">>}

\* What may stand before a token without changing it: nothing, spaces, a
\* line break, a block comment, a line comment with its line break
Spaces(n) == [i \in 1..n |-> " "]
Trivia ==
    {Spaces(n) : n \in 0..MaxSpaces}
    \cup {<<"\n">>, <<"/", "*", "c", "*", "/">>, <<"/", "/", "c", "\n">>}

RECURSIVE Layout(_, _)
\* The text in which gaps[i] stands before tokens[i]
Layout(tokens, gaps) ==
    IF tokens = <<>> THEN <<>>
    ELSE Head(gaps) \o <<Head(tokens)>> \o Layout(Tail(tokens), Tail(gaps))

\* A file that declares function f, in every layout of its tokens
LayoutTexts ==
    {[status |-> "ok", nodes |-> <<FunctionDeclaration("f", Layout(t, g))>>] :
        t \in TokenSeqs, g \in [1..3 -> Trivia]}

\* main at the call of compareTSDefinitions, after one changed TypeScript
\* file was read, extracted and merged for both revisions.
InitLayout ==
    /\ python3Available = TRUE
    /\ pythonFiles = <<>> /\ tsFiles = <<TSFile(1)>>
    /\ pyOldContent = <<>> /\ pyNewContent = <<>>
    /\ oldDefsArray = <<>> /\ newDefsArray = <<>>
    /\ oldDefs = Null /\ newDefs = Null /\ pythonComparison = Null
    /\ \E old \in LayoutTexts : \E new \in LayoutTexts :
         /\ tsOldContent = <<old>> /\ tsNewContent = <<new>>
         /\ oldTSDefs = PushTS(<<>>, old) /\ newTSDefs = PushTS(<<>>, new)
         /\ mergedOldTS = mergeTSDefinitions(PushTS(<<>>, old))
         /\ mergedNewTS = mergeTSDefinitions(PushTS(<<>>, new))
    /\ tsComparison = Null
    /\ output = <<<<"log", "Definitions", "1">>, <<"log", "Definitions", "1">>>>
    /\ exitCode = Running
    /\ detailed = Null
    /\ pc = "ts_compare"

NextLayout ==
    \/ TSCompare
    \/ Verdict

SpecLayout == InitLayout /\ [][NextLayout]_vars

\* --------------------------------------------- properties: normalization

\* The tokens of a text: what is left without comments and white space
Lex(text) ==
    SelectSeq(RemoveBlockComments(RemoveLineComments(text)), LAMBDA c : c \notin WhiteSpace)

\* Whether white space stands between any two tokens of a text
Separated(text) ==
    LET code == Trim(RemoveBlockComments(RemoveLineComments(text)))
    IN  \A i \in 1..(Len(code) - 1) : code[i] \in WhiteSpace \/ code[i + 1] \in WhiteSpace

\* The names old and new both define with the same tokens
SameTokens ==
    {q \in TSNamesOf(mergedOldTS) \cap TSNamesOf(mergedNewTS) :
        Lex(Get(mergedOldTS.items, q).body) = Lex(Get(mergedNewTS.items, q).body)}

\* C20: a definition whose old and new text have the same tokens, whatever
\* comments and white space stand between them, has the same fingerprint in
\* both and is classified matching.
C20_LayoutInsensitive ==
    TSCompared =>
        \A q \in SameTokens :
            /\ TSHashOf(mergedOldTS, q) = TSHashOf(mergedNewTS, q)
            /\ q \in Range(tsComparison.matching)

\* C20, for texts in which white space stands between any two tokens, in
\* the old text and in the new one: comments and the length of the runs of
\* white space do not change the fingerprint.
C20_SeparatedLayoutInsensitive ==
    TSCompared =>
        \A q \in SameTokens :
            (/\ Separated(Get(mergedOldTS.items, q).body)
             /\ Separated(Get(mergedNewTS.items, q).body))
            => /\ TSHashOf(mergedOldTS, q) = TSHashOf(mergedNewTS, q)
               /\ q \in Range(tsComparison.matching)

\* A case C20_SeparatedLayoutInsensitive covers: the new text has a
\* comment and longer runs of white space, and f is matching.
C20_CommentAddedReached ==
    /\ TSCompared
    /\ "fn:f" \in SameTokens
    /\ Get(mergedOldTS.items, "fn:f").body # Get(mergedNewTS.items, "fn:f").body
    /\ Separated(Get(mergedOldTS.items, "fn:f").body)
    /\ Separated(Get(mergedNewTS.items, "fn:f").body)
    /\ "fn:f" \in Range(tsComparison.matching)

\* --------------------- the TypeScript comparison on texts with string literals

\* The quote of a string literal
Quote == "'"

\* String literals: a letter, a line-comment opener, a block comment, one
\* space or two, between quotes
Literals ==
    {<<Quote>> \o inside \o <<Quote>> :
        inside \in {<<"a">>, <<"b">>,
                    <<"/", "/", "a">>, <<"/", "/", "b">>,
                    <<"/", "*", "a", "*", "/">>, <<"/", "*", "b", "*", "/">>,
                    <<" ">>, <<" ", " ">>}}

RECURSIVE Spell(_, _)
\* The text in which gaps[i] stands before the characters of tokens[i]
Spell(tokens, gaps) ==
    IF tokens = <<>> THEN <<>>
    ELSE Head(gaps) \o Head(tokens) \o Spell(Tail(tokens), Tail(gaps))

\* A file that declares function f with the body x = <literal>, closely set
\* or with single spaces
LiteralTexts ==
    {[status |-> "ok",
      nodes |-> <<FunctionDeclaration("f", Spell(<<<<"x">>, <<"=">>, lit>>, g))>>] :
        lit \in Literals, g \in [1..3 -> {<<>>, <<" ">>}]}

RECURSIVE TSLex(_)
\* The tokens the scanner of ts.createSourceFile reads from a text: comments
\* and white space are skipped where a token may start, a string literal
\* runs from its quote to the next quote, any other character is a token.
TSLex(code) ==
    IF code = <<>> THEN <<>>
    ELSE IF Head(code) \in WhiteSpace THEN TSLex(Tail(code))
    ELSE IF Len(code) >= 2 /\ code[1] = "/" /\ code[2] = "/" THEN TSLex(SkipLine(code))
    ELSE IF Len(code) >= 2 /\ code[1] = "/" /\ code[2] = "*" /\ BlockEnds(code) # {}
    THEN TSLex(SubSeq(code, Least(BlockEnds(code)) + 2, Len(code)))
    ELSE IF Head(code) = Quote
    THEN LET closing == {j \in 2..Len(code) : code[j] = Quote}
         IN  IF closing = {} THEN <<code>>
             ELSE <<SubSeq(code, 1, Least(closing))>>
                  \o TSLex(SubSeq(code, Least(closing) + 1, Len(code)))
    ELSE <<<<Head(code)>>>> \o TSLex(Tail(code))

\* main at the call of compareTSDefinitions, after one changed TypeScript
\* file with a string literal was read, extracted and merged for both
\* revisions.
InitLiteral ==
    /\ python3Available = TRUE
    /\ pythonFiles = <<>> /\ tsFiles = <<TSFile(1)>>
    /\ pyOldContent = <<>> /\ pyNewContent = <<>>
    /\ oldDefsArray = <<>> /\ newDefsArray = <<>>
    /\ oldDefs = Null /\ newDefs = Null /\ pythonComparison = Null
    /\ \E old \in LiteralTexts : \E new \in LiteralTexts :
         /\ tsOldContent = <<old>> /\ tsNewContent = <<new>>
         /\ oldTSDefs = PushTS(<<>>, old) /\ newTSDefs = PushTS(<<>>, new)
         /\ mergedOldTS = mergeTSDefinitions(PushTS(<<>>, old))
         /\ mergedNewTS = mergeTSDefinitions(PushTS(<<>>, new))
    /\ tsComparison = Null
    /\ output = <<<<"log", "Definitions", "1">>, <<"log", "Definitions", "1">>>>
    /\ exitCode = Running
    /\ detailed = Null
    /\ pc = "ts_compare"

SpecLiteral == InitLiteral /\ [][NextLayout]_vars

\* The names old and new both define, with different tokens
DifferentTokens ==
    {q \in TSNamesOf(mergedOldTS) \cap TSNamesOf(mergedNewTS) :
        TSLex(Get(mergedOldTS.items, q).body) # TSLex(Get(mergedNewTS.items, q).body)}

\* C21: two bodies whose token sequences differ, be it only inside a string
\* literal, have different fingerprints, and the definition is classified
\* modified.
C21_DifferentTokensModified ==
    TSCompared =>
        \A q \in DifferentTokens :
            /\ TSHashOf(mergedOldTS, q) # TSHashOf(mergedNewTS, q)
            /\ q \in Range(TSModifiedNames(tsComparison))

\* Whether a text has no "/" and no white space inside its string literals
PlainLiterals(text) ==
    \A t \in Range(TSLex(text)) : \A i \in 1..Len(t) :
        Head(t) = Quote => (t[i] # "/" /\ t[i] \notin WhiteSpace)

\* C21, for bodies whose string literals hold neither "/" nor white space:
\* different tokens give different fingerprints and a modified entry.
C21_PlainLiteralsModified ==
    TSCompared =>
        \A q \in DifferentTokens :
            (/\ PlainLiterals(Get(mergedOldTS.items, q).body)
             /\ PlainLiterals(Get(mergedNewTS.items, q).body))
            => /\ TSHashOf(mergedOldTS, q) # TSHashOf(mergedNewTS, q)
               /\ q \in Range(TSModifiedNames(tsComparison))

\* ------------------------------ the comparison on functions with signatures

\* The signatures of a Python function: with or without a decorator, async,
\* a parameter, a return annotation
Signatures ==
    [decorators : {<<>>, <<"@", "d">>}, is_async : BOOLEAN,
     args : {<<"(", ")">>, <<"(", "a", ")">>}, returns : {<<>>, <<"->", "T">>}]

\* A Python file that defines function f
SignaturePyTexts ==
    {[status |-> "ok",
      body |-> <<[type |-> "FunctionDef", name |-> "f", signature |-> sig,
                  impl |-> Body(b)]>>] :
        sig \in Signatures, b \in 1..MaxBody}

\* The characters of a TypeScript function up to its block: modifier,
\* parameters (none, one, one with a string literal as default), return type
TSSignatures ==
    {modifier \o params \o returns :
        modifier \in {<<>>, <<"a", "s", "y", "n", "c", " ">>},
        params \in {<<"(", ")">>, <<"(", "a", ")">>,
                    <<"(", "a", "=", Quote, "/", "/", "b", Quote, ")">>,
                    <<"(", "a", "=", Quote, "/", "/", "c", Quote, ")">>},
        returns \in {<<>>, <<":", "T">>}}

\* A TypeScript file that declares function f: the slice of the declaration
\* runs from its modifiers to the end of its block
SignatureTSTexts ==
    {[status |-> "ok",
      nodes |-> <<[kind |-> "function", name |-> "f", signature |-> sig,
                   statements |-> Raw(b, FALSE),
                   text |-> sig \o <<"{">> \o Raw(b, FALSE) \o <<"}">>]>>] :
        sig \in TSSignatures, b \in 1..MaxBody}

\* main at the call of compareDefinitions or of compareTSDefinitions, after
\* one changed file that defines f was read, extracted and merged for both
\* revisions.
InitSignature ==
    /\ python3Available = TRUE
    /\ tsComparison = Null /\ pythonComparison = Null
    /\ exitCode = Running
    /\ detailed = Null
    /\ \/ /\ pc = "py_compare"
          /\ pythonFiles = <<PyFile(1)>> /\ tsFiles = <<>>
          /\ \E old \in SignaturePyTexts : \E new \in SignaturePyTexts :
               /\ pyOldContent = <<old>> /\ pyNewContent = <<new>>
               /\ oldDefsArray = PushPython(<<>>, old)
               /\ newDefsArray = PushPython(<<>>, new)
               /\ oldDefs = mergeDefinitions(PushPython(<<>>, old))
               /\ newDefs = mergeDefinitions(PushPython(<<>>, new))
          /\ tsOldContent = <<>> /\ tsNewContent = <<>>
          /\ oldTSDefs = <<>> /\ newTSDefs = <<>>
          /\ mergedOldTS = Null /\ mergedNewTS = Null
          /\ output = <<<<"log", "Functions", "1">>, <<"log", "Classes", "0">>,
                        <<"log", "Functions", "1">>, <<"log", "Classes", "0">>>>
       \/ /\ pc = "ts_compare"
          /\ pythonFiles = <<>> /\ tsFiles = <<TSFile(1)>>
          /\ pyOldContent = <<>> /\ pyNewContent = <<>>
          /\ oldDefsArray = <<>> /\ newDefsArray = <<>>
          /\ oldDefs = Null /\ newDefs = Null
          /\ \E old \in SignatureTSTexts : \E new \in SignatureTSTexts :
               /\ tsOldContent = <<old>> /\ tsNewContent = <<new>>
               /\ oldTSDefs = PushTS(<<>>, old) /\ newTSDefs = PushTS(<<>>, new)
               /\ mergedOldTS = mergeTSDefinitions(PushTS(<<>>, old))
               /\ mergedNewTS = mergeTSDefinitions(PushTS(<<>>, new))
          /\ output = <<<<"log", "Definitions", "1">>, <<"log", "Definitions", "1">>>>

SpecSignature == InitSignature /\ [][NextCompare]_vars

\* The function nodes of the texts read for a revision
PyFunctionNodes(contents) ==
    UNION {{n \in Range(c.body) : n.type = "FunctionDef"} :
              c \in {x \in Range(contents) : x.status = "ok"}}
TSFunctionNodes(contents) ==
    UNION {{n \in Range(c.nodes) : n.kind = "function" /\ "signature" \in DOMAIN n} :
              c \in {x \in Range(contents) : x.status = "ok"}}

\* C22: a function whose decorators, async, parameters or return type
\* differ between old and new, with the same statements, has different
\* fingerprints in the two sets and is classified modified.
C22_SignatureSensitive ==
    /\ PyCompared =>
         \A n \in PyFunctionNodes(pyOldContent) : \A m \in PyFunctionNodes(pyNewContent) :
            (n.name = m.name /\ n.impl = m.impl /\ SignatureOf(n) # SignatureOf(m)) =>
               /\ Get(oldDefs.functions, n.name).body_hash
                    # Get(newDefs.functions, m.name).body_hash
               /\ PyLabel("function", n.name) \in Range(PyModifiedNames(pythonComparison))
               /\ ~pythonComparison.identical
    /\ TSCompared =>
         \A n \in TSFunctionNodes(tsOldContent) : \A m \in TSFunctionNodes(tsNewContent) :
            (n.name = m.name /\ n.statements = m.statements /\ n.signature # m.signature) =>
               /\ TSHashOf(mergedOldTS, "fn:" \o n.name) # TSHashOf(mergedNewTS, "fn:" \o m.name)
               /\ ("fn:" \o n.name) \in Range(TSModifiedNames(tsComparison))
               /\ ~tsComparison.identical

\* C22, for Python and for TypeScript signatures whose string literals
\* hold neither "/" nor white space: a changed signature is a changed
\* fingerprint and a modified entry.
C22_PlainSignatureSensitive ==
    /\ PyCompared =>
         \A n \in PyFunctionNodes(pyOldContent) : \A m \in PyFunctionNodes(pyNewContent) :
            (n.name = m.name /\ n.impl = m.impl /\ SignatureOf(n) # SignatureOf(m)) =>
               /\ Get(oldDefs.functions, n.name).body_hash
                    # Get(newDefs.functions, m.name).body_hash
               /\ PyLabel("function", n.name) \in Range(PyModifiedNames(pythonComparison))
               /\ ~pythonComparison.identical
    /\ TSCompared =>
         \A n \in TSFunctionNodes(tsOldContent) : \A m \in TSFunctionNodes(tsNewContent) :
            (/\ n.name = m.name /\ n.statements = m.statements /\ n.signature # m.signature
             /\ PlainLiterals(n.text) /\ PlainLiterals(m.text)) =>
               /\ TSHashOf(mergedOldTS, "fn:" \o n.name) # TSHashOf(mergedNewTS, "fn:" \o m.name)
               /\ ("fn:" \o n.name) \in Range(TSModifiedNames(tsComparison))
               /\ ~tsComparison.identical

\* A case C22_PlainSignatureSensitive covers: f gained a decorator and
\* nothing else, and is modified.
C22_DecoratorAddedReached ==
    /\ PyCompared
    /\ \E n \in PyFunctionNodes(pyOldContent) : \E m \in PyFunctionNodes(pyNewContent) :
         /\ n.name = m.name /\ n.impl = m.impl
         /\ SignatureOf(n).decorators = <<>> /\ SignatureOf(m).decorators # <<>>
         /\ SignatureOf(n).args = SignatureOf(m).args
         /\ SignatureOf(n).returns = SignatureOf(m).returns
         /\ SignatureOf(n).is_async = SignatureOf(m).is_async
    /\ Len(pythonComparison.modified) = 1

\* ------------------------------------------------- properties: constants

\* The top-level constants of the texts read for a revision, name and value:
\* Python assignments and annotated bindings, TypeScript bindings whose
\* initializer is a literal
PyConstants(contents) ==
    UNION {{<<n.name, n.impl>> : n \in {x \in Range(c.body) : x.type \in {"Assign", "AnnAssign"}}} :
              c \in {x \in Range(contents) : x.status = "ok"}}
TSConstants(contents) ==
    UNION {{<<n.name, n.text>> :
              n \in {x \in Range(c.nodes) : x.kind = "variable" /\ x.init = "literal"}} :
              c \in {x \in Range(contents) : x.status = "ok"}}

ConstantNames(constants) == {e[1] : e \in constants}

\* A result lists the differences between the constants of old and new: a
\* constant only old has under removed, one only new has under added, one
\* with another value under modified, and is not identical for any of them
ListsConstants(result, old, new) ==
    /\ ConstantNames(old) \ ConstantNames(new) # {} => result.removed # <<>>
    /\ ConstantNames(new) \ ConstantNames(old) # {} => result.added # <<>>
    /\ (\E e \in old : \E d \in new : e[1] = d[1] /\ e[2] # d[2]) => result.modified # <<>>
    /\ old # new => ~result.identical

\* C23: a top-level constant that is removed, added or has another value is
\* classified removed, added or modified, and the result is not identical.
C23_ConstantsCompared ==
    /\ PyCompared =>
         ListsConstants(pythonComparison, PyConstants(pyOldContent), PyConstants(pyNewContent))
    /\ TSCompared =>
         ListsConstants(tsComparison, TSConstants(tsOldContent), TSConstants(tsNewContent))

\* ------------------------------------------ properties: order of the files

\* The orders in which n files can be processed
FileOrders(n) ==
    {p \in [1..n -> 1..n] : \A i \in 1..n : \A j \in 1..n : p[i] = p[j] => i = j}

\* The texts of the files, taken in the order p
Permute(contents, p) == [i \in 1..Len(contents) |-> contents[p[i]]]

\* The merged sets of a revision when its files are processed in the order p
PyMergedIn(contents, p) == mergeDefinitions(PushAllPython(<<>>, Permute(contents, p)))
TSMergedIn(contents, p) == mergeTSDefinitions(PushAllTS(<<>>, Permute(contents, p)))

\* Two definition sets hold the same definitions under the same names
PySameSet(a, b) ==
    /\ Range(a.functions) = Range(b.functions)
    /\ Range(a.classes) = Range(b.classes)
    /\ Range(a.assignments) = Range(b.assignments)
    /\ Range(a.type_aliases) = Range(b.type_aliases)
TSSameSet(a, b) == Range(a.items) = Range(b.items)

\* Two results have the same entries in each list, in whatever order, and
\* the same verdict
SameUpToOrder(r, t) ==
    /\ r.identical = t.identical
    /\ Range(r.removed) = Range(t.removed) /\ Len(r.removed) = Len(t.removed)
    /\ Range(r.added) = Range(t.added) /\ Len(r.added) = Len(t.added)
    /\ Range(r.modified) = Range(t.modified) /\ Len(r.modified) = Len(t.modified)
    /\ Range(r.matching) = Range(t.matching) /\ Len(r.matching) = Len(t.matching)

\* The Python files, or the TypeScript files, are all read and compared,
\* and no name is defined by two files of one revision
PyOrderFree ==
    /\ PyCompared
    /\ ~Collides(oldDefsArray, PyNamesOf) /\ ~Collides(newDefsArray, PyNamesOf)
TSOrderFree ==
    /\ TSCompared
    /\ ~Collides(oldTSDefs, TSNamesOf) /\ ~Collides(newTSDefs, TSNamesOf)

\* C24, as stated: without collisions every order of the files gives the
\* same definition sets and the same result, list by list, and comparing
\* again gives that result.
C24_OrderIndependent ==
    /\ PyOrderFree =>
         /\ compareDefinitions(oldDefs, newDefs) = pythonComparison
         /\ \A p \in FileOrders(Len(pythonFiles)) :
              /\ PySameSet(PyMergedIn(pyOldContent, p), oldDefs)
              /\ PySameSet(PyMergedIn(pyNewContent, p), newDefs)
              /\ compareDefinitions(PyMergedIn(pyOldContent, p), PyMergedIn(pyNewContent, p))
                   = pythonComparison
    /\ TSOrderFree =>
         /\ compareTSDefinitions(mergedOldTS, mergedNewTS) = tsComparison
         /\ \A p \in FileOrders(Len(tsFiles)) :
              /\ TSSameSet(TSMergedIn(tsOldContent, p), mergedOldTS)
              /\ TSSameSet(TSMergedIn(tsNewContent, p), mergedNewTS)
              /\ compareTSDefinitions(TSMergedIn(tsOldContent, p), TSMergedIn(tsNewContent, p))
                   = tsComparison

\* C24, amended: without collisions every order of the files gives the same
\* definition sets and a result with the same entries in each list and the
\* same verdict, the order of the entries within a list apart; comparing
\* again gives the very same result.
C24_OrderIndependentUpToListOrder ==
    /\ PyOrderFree =>
         /\ compareDefinitions(oldDefs, newDefs) = pythonComparison
         /\ \A p \in FileOrders(Len(pythonFiles)) :
              /\ PySameSet(PyMergedIn(pyOldContent, p), oldDefs)
              /\ PySameSet(PyMergedIn(pyNewContent, p), newDefs)
              /\ SameUpToOrder(
                   compareDefinitions(PyMergedIn(pyOldContent, p), PyMergedIn(pyNewContent, p)),
                   pythonComparison)
    /\ TSOrderFree =>
         /\ compareTSDefinitions(mergedOldTS, mergedNewTS) = tsComparison
         /\ \A p \in FileOrders(Len(tsFiles)) :
              /\ TSSameSet(TSMergedIn(tsOldContent, p), mergedOldTS)
              /\ TSSameSet(TSMergedIn(tsNewContent, p), mergedNewTS)
              /\ SameUpToOrder(
                   compareTSDefinitions(TSMergedIn(tsOldContent, p), TSMergedIn(tsNewContent, p)),
                   tsComparison)

\* C24 witness: two Python files, f from one and g from the other in the
\* old revision, compared without a collision.
C24_Witness ==
    /\ PyOrderFree
    /\ Len(oldDefsArray) = 2
    /\ Has(oldDefsArray[1].functions, "f") /\ Has(oldDefsArray[2].functions, "g")
    /\ Len(pythonComparison.removed) + Len(pythonComparison.matching)
         + Len(pythonComparison.modified) = 2

\* ------------------------------------------- properties: kinds of one name

\* The fingerprint the last extracted file with the qualified name q gives
\* it, Null when no extracted file has q
PyLatest(array, q) ==
    IF \E i \in 1..Len(array) : q \in PyComparedNamesOf(array[i])
    THEN PyHashOf(array[LastWith(array, q, PyComparedNamesOf)], q)
    ELSE Null
TSLatest(array, q) ==
    IF \E i \in 1..Len(array) : q \in TSNamesOf(array[i])
    THEN TSHashOf(array[LastWith(array, q, TSNamesOf)], q)
    ELSE Null

\* The lists of a result hold q as its own two fingerprints o (old) and w
\* (new) say, and as nothing else says
ClassifiedBy(removed, added, modified, matching, q, o, w) ==
    /\ Occurrences(removed, q) = (IF o # Null /\ w = Null THEN 1 ELSE 0)
    /\ Occurrences(added, q) = (IF o = Null /\ w # Null THEN 1 ELSE 0)
    /\ Occurrences(modified, q) = (IF o # Null /\ w # Null /\ o # w THEN 1 ELSE 0)
    /\ Occurrences(matching, q) = (IF o # Null /\ w # Null /\ o = w THEN 1 ELSE 0)

\* The qualified names a name can have
PyKindsOf(n) == {PyLabel("function", n), PyLabel("class", n)}
TSKindsOf(n) == {"fn:" \o n, "const:" \o n, "class:" \o n}

\* C25: a function and a class (or a binding) of one name are entries of
\* their own: each is merged from the files that define that kind of the
\* name, whatever the other kinds of the name are, and each is classified
\* by its own two fingerprints alone.
C25_KindsApart ==
    /\ PyCompared =>
         \A n \in Names : \A q \in PyKindsOf(n) :
            /\ Cardinality(PyKindsOf(n)) = 2
            /\ ClassifiedBy(pythonComparison.removed, pythonComparison.added,
                            PyModifiedNames(pythonComparison), pythonComparison.matching,
                            q, PyLatest(oldDefsArray, q), PyLatest(newDefsArray, q))
    /\ TSCompared =>
         \A n \in Names : \A q \in TSKindsOf(n) :
            /\ Cardinality(TSKindsOf(n)) = 3
            /\ ClassifiedBy(tsComparison.removed, tsComparison.added,
                            TSModifiedNames(tsComparison), tsComparison.matching,
                            q, TSLatest(oldTSDefs, q), TSLatest(newTSDefs, q))

\* C25 witness: both revisions define a function f in one file and a class
\* f in another; the function changed and the class did not, and the result
\* has function f modified and class f matching.
C25_Witness ==
    /\ PyCompared
    /\ Len(oldDefsArray) = 2 /\ Len(newDefsArray) = 2
    /\ Has(oldDefsArray[1].functions, "f") /\ Has(oldDefsArray[2].classes, "f")
    /\ Has(newDefsArray[1].functions, "f") /\ Has(newDefsArray[2].classes, "f")
    /\ Occurrences(PyModifiedNames(pythonComparison), PyLabel("function", "f")) = 1
    /\ Occurrences(pythonComparison.matching, PyLabel("class", "f")) = 1

\* The same for TypeScript: function f added, class f matching
C25_TSWitness ==
    /\ TSCompared
    /\ Len(oldTSDefs) = 2 /\ Len(newTSDefs) = 2
    /\ Has(oldTSDefs[2].items, "class:f") /\ Has(newTSDefs[2].items, "class:f")
    /\ Has(newTSDefs[1].items, "fn:f")
    /\ Occurrences(tsComparison.added, "fn:f") = 1
    /\ Occurrences(tsComparison.matching, "class:f") = 1

\* ------------------------------- properties: the two scripts side by side

\* The qualified names the detailed script lists under a heading
DetailedLabels(type, names) == {PyLabel(type, n) : n \in Range(names)}

\* The entries of a list of the summary result that are of one kind
LabelsOfKind(list, type) == {q \in Range(list) : \E n \in Names : q = PyLabel(type, n)}

\* Both scripts are done with the Python files, the rename table as shipped
BothDone == PyCompared /\ DetailedAt("done") /\ detailed.renames = EmptyObj

\* C26: on the same input the detailed script lists as REMOVED, ADDED and
\* MODIFIED exactly what the summary script has in removed, added and
\* modified.
C26_ScriptsAgree ==
    BothDone =>
        /\ DetailedLabels("function", detailed.removed) = Range(pythonComparison.removed)
        /\ DetailedLabels("function", detailed.added) = Range(pythonComparison.added)
        /\ DetailedLabels("function", detailed.modified)
             \cup DetailedLabels("class", detailed.modifiedClasses)
             = Range(PyModifiedNames(pythonComparison))

\* C26, for the functions and for the modified classes: the scripts agree.
C26_FunctionsAgree ==
    BothDone =>
        /\ DetailedLabels("function", detailed.removed)
             = LabelsOfKind(pythonComparison.removed, "function")
        /\ DetailedLabels("function", detailed.added)
             = LabelsOfKind(pythonComparison.added, "function")
        /\ DetailedLabels("function", detailed.modified)
             \cup DetailedLabels("class", detailed.modifiedClasses)
             = Range(PyModifiedNames(pythonComparison))

\* The items of extractTSDefinitionsDetailed for the same files: key to the
\* trimmed source slice
DetailedTSItems(merged) ==
    [i \in 1..Len(merged.items) |->
        [key |-> merged.items[i].key, val |-> Trim(merged.items[i].val.body)]]

\* C26 for TypeScript: what analyzeTSDefinitions prints as MODIFIED is the
\* summary's modified.
C26_TSModifiedAgree ==
    TSCompared =>
        Range(ModifiedNames(DetailedTSItems(mergedOldTS), DetailedTSItems(mergedNewTS)))
          = Range(TSModifiedNames(tsComparison))

\* ------------------------------------------------ simpleDiff on two texts

MaxPrefix == 3
MaxFill == 12

\* Math.max, Math.min
MathMax(a, b) == IF a >= b THEN a ELSE b
MathMin(a, b) == IF a <= b THEN a ELSE b

RECURSIVE Split(_)
\* code.split("\n"): the lines of a text, one at least
Split(code) ==
    IF \A k \in 1..Len(code) : code[k] # "\n" THEN <<code>>
    ELSE LET n == Least({k \in 1..Len(code) : code[k] = "\n"})
         IN  <<SubSeq(code, 1, n - 1)>> \o Split(SubSeq(code, n + 1, Len(code)))

\* line.substring(0, 80)
Substring80(line) == SubSeq(line, 1, MathMin(Len(line), 80))

RECURSIVE FirstDifference(_, _, _)
\* "Find first difference": the number of leading lines (from i on) that
\* both texts have and that are equal
FirstDifference(oldLines, newLines, i) ==
    IF i < Len(oldLines) /\ i < Len(newLines) /\ oldLines[i + 1] = newLines[i + 1]
    THEN FirstDifference(oldLines, newLines, i + 1)
    ELSE i

\* const contextStart = Math.max(0, i - 2)
ContextStart(i) == MathMax(0, i - 2)

\* The bound of the loop over j
WindowEnd(oldLines, newLines, i) ==
    MathMin(i + 10, MathMax(Len(oldLines), Len(newLines)))

\* What the loop pushes for the line position j (counted from 0)
DiffLine(oldLines, newLines, j) ==
    IF j < Len(oldLines) /\ j < Len(newLines) /\ oldLines[j + 1] = newLines[j + 1]
    THEN <<[mark |-> "    ", text |-> Substring80(oldLines[j + 1])]>>
    ELSE (IF j < Len(oldLines)
          THEN <<[mark |-> "  - ", text |-> Substring80(oldLines[j + 1])]>> ELSE <<>>)
         \o (IF j < Len(newLines)
             THEN <<[mark |-> "  + ", text |-> Substring80(newLines[j + 1])]>> ELSE <<>>)

RECURSIVE DiffLines(_, _, _, _)
\* The loop for (let j = contextStart; j < end; j++)
DiffLines(oldLines, newLines, j, end) ==
    IF j < end
    THEN DiffLine(oldLines, newLines, j) \o DiffLines(oldLines, newLines, j + 1, end)
    ELSE <<>>

\* A count that starts at the context instead of the first difference
Remaining_FromContext(oldLines, newLines, i) ==
    MathMax(Len(oldLines), Len(newLines)) - ContextStart(i) - 10

\* const remaining = Math.max(oldLines.length, newLines.length) - i - 10
Remaining(oldLines, newLines, i) ==
    MathMax(Len(oldLines), Len(newLines)) - i - 10

\* The two lines with a count
IdenticalLines(n) == [mark |-> "  ... (", count |-> n, text |-> " identical lines)"]
MoreLines(n) == [mark |-> "  ... (", count |-> n, text |-> " more lines)"]

\* simpleDiff(oldCode, newCode): the lines of the string it returns
simpleDiff(oldCode, newCode) ==
    LET oldLines == Split(oldCode)
        newLines == Split(newCode)
        i == FirstDifference(oldLines, newLines, 0)
    IN  IF i = Len(oldLines) /\ i = Len(newLines) THEN <<[mark |-> "(identical)"]>>
        ELSE (IF ContextStart(i) > 0 THEN <<IdenticalLines(ContextStart(i))>> ELSE <<>>)
             \o DiffLines(oldLines, newLines, ContextStart(i),
                          WindowEnd(oldLines, newLines, i))
             \o (IF Remaining(oldLines, newLines, i) > 0
                 THEN <<MoreLines(Remaining(oldLines, newLines, i))>> ELSE <<>>)

RECURSIVE JoinLines(_)
\* The text with the given lines
JoinLines(lines) ==
    IF Len(lines) = 0 THEN <<>>
    ELSE IF Len(lines) = 1 THEN lines[1]
    ELSE lines[1] \o <<"\n">> \o JoinLines(Tail(lines))

\* The bodies simpleDiff is given: some lines "c", then none or one line "a"
\* or "b", then some lines "c" again.
DiffTexts ==
    {JoinLines([k \in 1..p |-> <<"c">>] \o mid \o [k \in 1..n |-> <<"c">>]) :
        p \in 0..MaxPrefix, mid \in {<<>>, <<<<"a">>>>, <<<<"b">>>>}, n \in 0..MaxFill}

\* The detailed script at a call of simpleDiff; the summary script not run.
InitDiff ==
    /\ pc = "start"
    /\ python3Available = TRUE
    /\ pythonFiles = <<>> /\ tsFiles = <<>>
    /\ pyOldContent = <<>> /\ pyNewContent = <<>>
    /\ oldDefsArray = <<>> /\ newDefsArray = <<>>
    /\ oldDefs = Null /\ newDefs = Null /\ pythonComparison = Null
    /\ tsOldContent = <<>> /\ tsNewContent = <<>>
    /\ oldTSDefs = <<>> /\ newTSDefs = <<>>
    /\ mergedOldTS = Null /\ mergedNewTS = Null /\ tsComparison = Null
    /\ output = <<>>
    /\ exitCode = Running
    /\ \E oldCode \in DiffTexts : \E newCode \in DiffTexts :
         detailed = [pc |-> "diff", oldCode |-> oldCode, newCode |-> newCode,
                     diff |-> Null]

\* console.log(simpleDiff(oldCode, newCode))
SimpleDiff ==
    /\ DetailedAt("diff")
    /\ detailed' = [detailed EXCEPT
            !.diff = simpleDiff(detailed.oldCode, detailed.newCode),
            !.pc = "diffed"]
    /\ UNCHANGED summaryVars

NextDiff == SimpleDiff

SpecDiff == InitDiff /\ [][NextDiff]_vars

\* --------------------------------------------------- properties: simpleDiff

\* The line positions (from 0) at which two texts differ: a line of one
\* differs from the other's, or the other has no such line
DifferingPositions(oldLines, newLines) ==
    {j \in 0..(MathMax(Len(oldLines), Len(newLines)) - 1) :
        ~(j < Len(oldLines) /\ j < Len(newLines) /\ oldLines[j + 1] = newLines[j + 1])}

\* The lines of a diff that stand for lines of the texts
IsCount(line) == "count" \in DOMAIN line
BodyOf(diff) == SelectSeq(diff, LAMBDA line : ~IsCount(line))

\* The number of unchanged lines a diff shows before its first - or + line
ContextBefore(diff) ==
    LET body == BodyOf(diff)
        first == Least({k \in 1..Len(body) : body[k].mark # "    "})
    IN  first - 1

\* The number of line positions a diff shows: an unchanged line is one
\* position, a - line one, and a + line one unless it follows the - line of
\* the same position
RECURSIVE ShownPositions(_, _, _, _)
ShownPositions(oldLines, newLines, j, body) ==
    IF body = <<>> THEN 0
    ELSE 1 + ShownPositions(oldLines, newLines, j + 1,
                            SubSeq(body, Len(DiffLine(oldLines, newLines, j)) + 1, Len(body)))

\* C27: simpleDiff returns "(identical)" exactly for two texts of the same
\* lines; otherwise the diff has a - or + line, shows at most 2 unchanged
\* lines before the first differing one and no line position from the
\* first difference + 10 on, and its two counts are the numbers of line
\* positions it leaves out before and after the ones it shows.
C27_SimpleDiff ==
    DetailedAt("diffed") =>
        LET oldLines == Split(detailed.oldCode)
            newLines == Split(detailed.newCode)
            diff == detailed.diff
            total == MathMax(Len(oldLines), Len(newLines))
        IN  /\ (diff = <<[mark |-> "(identical)"]>>) <=> (oldLines = newLines)
            /\ oldLines # newLines =>
                 LET first == Least(DifferingPositions(oldLines, newLines))
                     before == IF IsCount(diff[1]) /\ diff[1].text = " identical lines)"
                               THEN diff[1].count ELSE 0
                     after == IF IsCount(diff[Len(diff)]) /\ diff[Len(diff)].text = " more lines)"
                              THEN diff[Len(diff)].count ELSE 0
                     shown == ShownPositions(oldLines, newLines, before, BodyOf(diff))
                 IN  /\ \E k \in 1..Len(diff) : diff[k].mark \in {"  - ", "  + "}
                     /\ ContextBefore(diff) <= 2
                     /\ ContextBefore(diff) = first - before
                     /\ before + shown <= first + 10
                     /\ before + shown + after = total
                     /\ BodyOf(diff) = DiffLines(oldLines, newLines, before, before + shown)
                     /\ \A k \in 1..Len(diff) :
                          IsCount(diff[k]) => diff[k].count > 0 /\ k \in {1, Len(diff)}

\* C27 witness: a diff of texts that agree on more than 2 leading lines and
\* go on for more than 10 lines after the first difference: both counts
\* are there.
C27_Witness ==
    /\ DetailedAt("diffed")
    /\ Len(detailed.diff) > 2
    /\ IsCount(detailed.diff[1])
    /\ IsCount(detailed.diff[Len(detailed.diff)])
    /\ detailed.diff[1].count = 1

\* ------------------------------------------------- the run to its end

\* main runs on one thread and every step it awaits (git, python3, a file
\* read) ends, so a step that can be taken is taken.
SpecLive == Init /\ [][Next]_vars /\ WF_vars(Next)

\* The lines that end a run
NothingLine == <<"log", "Nothing to verify">>
PassedLine == <<"log", "VERIFICATION PASSED">>
FailedLine == <<"log", "VERIFICATION FAILED">>
FatalLine == <<"error", "Fatal error">>
Outcomes == {NothingLine, PassedLine, FailedLine, FatalLine}

\* The number of outcome lines written so far
OutcomeCount == Cardinality({i \in 1..Len(output) : output[i] \in Outcomes})

\* Every changed file of both revisions is read and extracted, and every
\* language with changed files is compared
AllExtractedAndCompared ==
    /\ Len(pyOldContent) = Len(pythonFiles) /\ Len(pyNewContent) = Len(pythonFiles)
    /\ Len(tsOldContent) = Len(tsFiles) /\ Len(tsNewContent) = Len(tsFiles)
    /\ Len(pythonFiles) > 0 => oldDefs # Null /\ newDefs # Null /\ PyCompared
    /\ Len(tsFiles) > 0 => mergedOldTS # Null /\ mergedNewTS # Null /\ TSCompared

\* A run has one outcome when it has exited and none before; the outcome is
\* the last line, with exit 0 for nothing to verify and passed and exit 1
\* for failed and fatal; a verdict comes after all extraction and comparison
OneOutcome ==
    /\ pc # "exited" => OutcomeCount = 0 /\ exitCode = Running
    /\ pc = "exited" =>
         /\ OutcomeCount = 1
         /\ output[Len(output)] \in Outcomes
         /\ output[Len(output)] \in {NothingLine, PassedLine} <=> exitCode = 0
         /\ output[Len(output)] \in {FailedLine, FatalLine} <=> exitCode = 1
         /\ output[Len(output)] = NothingLine => Len(pythonFiles) = 0 /\ Len(tsFiles) = 0
         /\ output[Len(output)] \in {PassedLine, FailedLine} => AllExtractedAndCompared

\* C28: every run ends, with exactly one outcome (exit 0 after "nothing to
\* verify" or VERIFICATION PASSED, exit 1 after VERIFICATION FAILED or a
\* fatal error) that is not changed afterwards, and a verdict is given only
\* after every changed file of both revisions is extracted and every
\* language with changed files is compared.
C28_TerminatesWithOneOutcome ==
    /\ <>(pc = "exited")
    /\ []OneOutcome
    /\ [][pc = "exited" => UNCHANGED <<pc, output, exitCode>>]_vars

\* C28 witness: a run with changed files of both languages that has ended
\* with VERIFICATION FAILED and exit 1 after both comparisons.
C28_Witness ==
    /\ pc = "exited"
    /\ Len(pythonFiles) > 0 /\ Len(tsFiles) > 0
    /\ output[Len(output)] = FailedLine /\ exitCode = 1
    /\ AllExtractedAndCompared

\* A run ended by the fatal handler
C28_FatalReached ==
    pc = "exited" /\ output[Len(output)] = FatalLine /\ exitCode = 1

====
